---- MODULE Spec2Model ----
(***************************************************************************)
(* A model of the Analytic Programming orchestrator:                       *)
(*   - the phase engine and the planning step (orchestrator_enhanced.py),  *)
(*   - the scope validator and the wave scheduler,                         *)
(*   - the worker supervisor over stdio (mcp_server_stdio.py),             *)
(*   - the WebSocket connection manager (ap_studio_backend.py).            *)
(* Each component has its own specification over the shared variables; the *)
(* variables of the components a specification does not run stay at their  *)
(* constructed values.                                                     *)
(***************************************************************************)
EXTENDS Integers, Sequences, FiniteSets, TLC

None == "None"

\* None, where the value is otherwise a record (a dict or a dataclass).
NoneRec == [none |-> TRUE]

Min(a, b) == IF a < b THEN a ELSE b

Range(s) == {s[k] : k \in 1..Len(s)}

\* All sequences over S of length lo..hi.
SeqsBetween(S, lo, hi) == UNION {[1..n -> S] : n \in lo..hi}

(***************************************************************************)
(* Bounds of the model.                                                    *)
(***************************************************************************)
\* Longest objective list handed to the planning step.
MaxObjs == 3
\* Most chunks an owner request is built from.
MaxChunks == 2
\* Most caller-level validation/resolution passes after a plan was emitted.
MaxPasses == 1
\* WebSockets that may connect.
MaxConns == 2
\* broadcast() calls that may run, also at the same time.
MaxBroadcasts == 1
\* Lines the worker may write, to its stdout and its stderr together.
MaxLines == 2
\* stop() calls on the supervisor.
MaxStops == 2
\* Objectives in a plan handed to the execution phase.
MaxTasks == 3
\* Messages a reporting worker may write.
MaxReports == 3
\* Entries in the worker registry.
MaxEntries == 3
\* Updates the execution phase may yield.
MaxExecUpdates == 2
\* cancel_orchestration calls.
MaxCancels == 1

(***************************************************************************)
(* Text.  Requests are strings; `in` and lower() work on their characters. *)
(***************************************************************************)
LowerChar(c) ==
    CASE c = "A" -> "a" [] c = "B" -> "b" [] c = "E" -> "e" [] c = "F" -> "f"
      [] c = "I" -> "i" [] c = "R" -> "r" [] c = "S" -> "s" [] c = "T" -> "t"
      [] c = "U" -> "u" [] c = "X" -> "x" [] OTHER -> c

RECURSIVE Lower(_)
Lower(s) ==
    IF Len(s) = 0 THEN ""
    ELSE LowerChar(SubSeq(s, 1, 1)) \o Lower(SubSeq(s, 2, Len(s)))

\* Python's `word in text` on strings.
Contains(text, word) ==
    \/ Len(word) = 0
    \/ \E i \in 1..(Len(text) - Len(word) + 1) :
          SubSeq(text, i, i + Len(word) - 1) = word

AnyWordIn(words, text) == \E w \in words : Contains(text, w)

\* str.title() of the TaskType values.
TitleCase(v) ==
    CASE v = "reset" -> "Reset" [] v = "feature" -> "Feature" [] v = "bug" -> "Bug"
      [] v = "refactor" -> "Refactor" [] v = "enhancement" -> "Enhancement"

Chunks == {"reset", "Fix", "BUG", "refactor", " all", "auth", "Test", "improve",
           "add login", "prefix"}

RECURSIVE Concat(_)
Concat(cs) == IF cs = <<>> THEN "" ELSE Head(cs) \o Concat(Tail(cs))

Requests == {Concat(cs) : cs \in SeqsBetween(Chunks, 0, MaxChunks)}

(***************************************************************************)
(* Enumerations (orchestrator.py).                                         *)
(***************************************************************************)
OrchestratorPhase ==
    {"idle", "analytic", "planning", "validation", "execution", "integration",
     "post_execution", "auto_documentation", "completed", "failed"}

TaskType == {"reset", "feature", "bug", "refactor", "enhancement"}

(***************************************************************************)
(* Objectives.                                                             *)
(***************************************************************************)
Paths == {"src/", "src/core/", "src/ui/", "tests/"}

\* What the objective lists handed to the planning step are drawn from.
GivenTitles == {"Core", "Tests", "UI"}
GivenTouch  == (SUBSET {"src/core/", "tests/"}) \ {{}}
GivenWaves  == {1, 2}

GivenObjective ==
    {[title |-> t, worker_type |-> "auto", scope_touch |-> s,
      scope_forbid |-> {"src/core/", "tests/"} \ s, wave |-> w] :
        t \in GivenTitles, s \in GivenTouch, w \in GivenWaves}

GivenObjectiveLists == SeqsBetween(GivenObjective, 0, MaxObjs)

\* What the team configuration's global_forbid list may hold.
GlobalForbidChoices == SUBSET {"src/", ".git/"}

VARIABLES
    \* ---- EnhancedOrchestrator -------------------------------------------
    team_global_forbid, \* team_config['global_forbid']
    caller,             \* the entry point the caller runs
    owner_request,      \* argument of run_analytic_phase / run_full_cycle
    uploaded_files,     \* argument of run_analytic_phase
    current_session,    \* self.current_session
    current_status,     \* self.current_status
    status_log,         \* every status _update_status set, in order
    db_states,          \* rows of orchestrator_state, in order
    epc,                \* the next segment of the generators to run
    events,             \* the events yielded so far
    codebase,           \* local of run_analytic_phase
    task_type,          \* local of run_analytic_phase
    coordination_points,\* local of run_analytic_phase
    analysis,           \* the AnalysisReport handed to run_planning_phase
    objectives,         \* local of run_planning_phase
    handed,             \* the objective list as the planning step received it
    waves,              \* local of run_planning_phase
    validation,         \* local of run_planning_phase
    plan,               \* the CoordinationPlan of phase_complete
    passes              \* the caller-level passes run after the plan, in order

engVars == <<team_global_forbid, caller, owner_request, uploaded_files,
             current_session, current_status, status_log, db_states, epc,
             events, codebase, task_type, coordination_points, analysis,
             objectives, handed, waves, validation, plan, passes>>

VARIABLES
    \* ---- ConnectionManager -----------------------------------------------
    active_connections, \* self.active_connections: channel -> list of sockets
    sockets,            \* each WebSocket: its state and the channel it joined
    bc                  \* each broadcast() call: its loop position and record

hubVars == <<active_connections, sockets, bc>>

VARIABLES
    \* ---- MCPServerStdio (one supervisor) and its worker --------------------
    process,            \* self.process: None, or the worker alive / exited
    running,            \* self.running
    message_id_counter, \* self.message_id_counter
    pending_requests,   \* self._pending_requests: request id -> future's state
    stdin,              \* the messages written to the worker's stdin
    stdout,             \* the worker's stdout pipe: lines written, not yet read
    stderr,             \* the worker's stderr pipe
    broadcasts,         \* the calls made on the broadcaster, in order
    tools_used,         \* self.metrics.tools_used
    turn,               \* the task that holds the event loop's thread
    ready,              \* the event loop's queue of tasks ready to run
    tpc,                \* where each task of the supervisor is
    timer,              \* the timeout of asyncio.wait_for in list_tools
    call,               \* the list_tools call of the main task
    wrote,              \* every line the worker wrote to stdout, in order
    consumed,           \* every line _read_stdout read, and what came of it
    metrics,            \* self.metrics: the task counters and files_modified
    stop,               \* the stop() calls: where the running one is, by whom
    signals,            \* terminate() and kill() calls on the process, in order
    other               \* a second task that calls list_tools, and its call

supVars == <<process, running, message_id_counter, pending_requests, stdin,
             stdout, stderr, broadcasts, tools_used, turn, ready, tpc, timer, call,
             wrote, consumed, metrics, stop, signals, other>>

VARIABLES
    \* ---- the execution phase over the worker pool --------------------------
    exec_waves,         \* the plan's waves: lists of task ids
    exec_wave,          \* the wave being executed (0: none yet)
    exec_worker,        \* the pool worker each task goes to
    exec_task,          \* where the execute_task call of each task is
    exec_sent,          \* per worker, the task ids sent to it with execute_task
    exec_reported       \* what the worker has reported for each task

execVars == <<exec_waves, exec_wave, exec_worker, exec_task, exec_sent,
              exec_reported>>

VARIABLES
    \* ---- the OrchestrationLauncher and one orchestration ------------------
    version,            \* what get_version finds: missing, empty_prd or ok
    callback,           \* the websocket_callback: none, ok, or one that may raise
    launch,             \* where start_orchestration is, and what it returned
    orch,               \* the row of the orchestration: status and phase
    active,             \* orch_id in self.active_orchestrations
    notes,              \* the messages the callback was called with, in order
    entered,            \* the phases _stream_orchestration has begun, in order
    cancels             \* what the cancel_orchestration calls returned

lchVars == <<version, callback, launch, orch, active, notes, entered, cancels>>

VARIABLES
    \* ---- WorkerPoolManager.start_workers ----------------------------------
    registry,           \* team_config['workers']: the entries, in order
    pool_pc,            \* where start_workers is
    pool_idx,           \* entries the loop is done with
    pool_spawned,       \* indices of the entries start() was called for
    pool_workers        \* self.workers: worker id -> index of its entry

poolVars == <<registry, pool_pc, pool_idx, pool_spawned, pool_workers>>

vars == <<engVars, hubVars, supVars, execVars, lchVars, poolVars>>

\* What the steps of each part leave alone.
outsideEngine == <<hubVars, supVars, execVars, lchVars, poolVars>>

outsideHub == <<engVars, supVars, execVars, lchVars, poolVars>>

outsideSup == <<engVars, hubVars, execVars, lchVars, poolVars>>

outsideExec == <<engVars, hubVars, supVars, lchVars, poolVars>>

outsideLauncher == <<engVars, hubVars, supVars, execVars, poolVars>>

outsidePool == <<engVars, hubVars, supVars, execVars, lchVars>>

(***************************************************************************)
(* The ConnectionManager as constructed (ap_studio_backend.py)             *)
(***************************************************************************)
Channels == {"brainstorm", "orchestration", "workers"}

Conns == 1..MaxConns

Broadcasts == 1..MaxBroadcasts

BroadcastIdle ==
    [st |-> "idle", channel |-> None, idx |-> 0, cur |-> 0, disconnected |-> <<>>,
     delivered |-> <<>>, start |-> <<>>, cut |-> FALSE]

HubConstructed ==
    /\ active_connections = [ch \in Channels |-> <<>>]
    /\ sockets = [c \in Conns |-> [state |-> "new", channel |-> None, handler |-> "none"]]
    /\ bc = [b \in Broadcasts |-> BroadcastIdle]

(***************************************************************************)
(* The supervisor as constructed (mcp_server_stdio.py)                     *)
(***************************************************************************)
Tasks == {"main", "stdout", "stderr"}

\* The second caller before it is created
OtherIdle == [pc |-> "idle", request_id |-> [prefix |-> None, n |-> 0], timer |-> "none"]

SupConstructed ==
    /\ process = None
    /\ running = FALSE
    /\ message_id_counter = 0
    /\ pending_requests = <<>>
    /\ stdin = <<>>
    /\ stdout = [lines |-> <<>>, eof |-> FALSE]
    /\ stderr = [lines |-> <<>>, eof |-> FALSE]
    /\ broadcasts = <<>>
    /\ tools_used = <<>>
    /\ turn = "main"
    /\ ready = <<>>
    /\ tpc = [t \in Tasks |-> IF t = "main" THEN "constructed" ELSE "none"]
    /\ timer = "none"
    /\ call = NoneRec
    /\ wrote = <<>>
    /\ consumed = <<>>
    /\ metrics = [tasks_completed |-> 0, tasks_failed |-> 0, files_modified |-> <<>>]
    /\ stop = [pc |-> "idle", by |-> None, returned |-> 0, raised |-> FALSE]
    /\ signals = <<>>
    /\ other = OtherIdle

(***************************************************************************)
(* The worker pool with nothing to execute                                 *)
(***************************************************************************)
PoolWorkers == {"codex_1", "claude_1"}

ExecIdle ==
    /\ exec_waves = <<>>
    /\ exec_wave = 0
    /\ exec_worker = <<>>
    /\ exec_task = <<>>
    /\ exec_sent = [w \in PoolWorkers |-> <<>>]
    /\ exec_reported = <<>>

(***************************************************************************)
(* The launcher and the pool manager as constructed                        *)
(***************************************************************************)
\* OrchestrationLauncher(db) with no orchestration yet
LauncherConstructed ==
    /\ launch = [pc |-> "idle", phase |-> 0, k |-> 0, err |-> FALSE,
                 raised |-> FALSE, result |-> NoneRec]
    /\ orch = [status |-> None, phase |-> None]
    /\ active = FALSE
    /\ notes = <<>>
    /\ entered = <<>>
    /\ cancels = <<>>

LauncherIdle == LauncherConstructed /\ version = "ok" /\ callback = "none"

\* WorkerPoolManager(team_config, broadcaster) before start_workers
PoolConstructed ==
    /\ pool_pc = "idle"
    /\ pool_idx = 0
    /\ pool_spawned = <<>>
    /\ pool_workers = <<>>

PoolIdle == PoolConstructed /\ registry = <<>>

\* The parts that only stand by in the specifications of the others
OthersIdle == LauncherIdle /\ PoolIdle


(***************************************************************************)
(* OrchestratorTools.validate_scope_exclusivity                            *)
(***************************************************************************)
\* The keys of the `waves` dict, in insertion order.
RECURSIVE WaveKeys(_)
WaveKeys(objs) ==
    IF objs = <<>> THEN <<>>
    ELSE LET rest == WaveKeys(SubSeq(objs, 1, Len(objs) - 1))
             w    == objs[Len(objs)].wave
         IN  IF w \in Range(rest) THEN rest ELSE Append(rest, w)

\* waves[w]: the objectives of wave w, in list order.
WaveObjs(objs, w) == SelectSeq(objs, LAMBDA o : o.wave = w)

\* The loops `for i, obj1 in enumerate(wave_objs)` / `for obj2 in
\* wave_objs[i+1:]`, from the pair (i, j) on.
RECURSIVE PairConflicts(_, _, _, _)
PairConflicts(wave_objs, w, i, j) ==
    IF i > Len(wave_objs) THEN <<>>
    ELSE IF j > Len(wave_objs) THEN PairConflicts(wave_objs, w, i + 1, i + 2)
    ELSE LET overlap == wave_objs[i].scope_touch \cap wave_objs[j].scope_touch
             found   == IF overlap # {}
                        THEN <<[wave |-> w,
                                objective1 |-> wave_objs[i].title,
                                objective2 |-> wave_objs[j].title,
                                overlap |-> overlap]>>
                        ELSE <<>>
         IN  found \o PairConflicts(wave_objs, w, i, j + 1)

\* A wrong validator: obj1 is compared with its successor only.
AdjacentConflictsOnly(wave_objs, w) ==
    LET hit(i) == wave_objs[i].scope_touch \cap wave_objs[i + 1].scope_touch
        idx    == SelectSeq([k \in 1..(Len(wave_objs) - 1) |-> k],
                            LAMBDA k : hit(k) # {})
    IN  [k \in 1..Len(idx) |->
            [wave |-> w, objective1 |-> wave_objs[idx[k]].title,
             objective2 |-> wave_objs[idx[k] + 1].title, overlap |-> hit(idx[k])]]

\* The conflicts of one wave.
WaveConflicts(wave_objs, w) == PairConflicts(wave_objs, w, 1, 2)

RECURSIVE ConflictsOfWaves(_, _)
ConflictsOfWaves(objs, keys) ==
    IF keys = <<>> THEN <<>>
    ELSE WaveConflicts(WaveObjs(objs, Head(keys)), Head(keys))
            \o ConflictsOfWaves(objs, Tail(keys))

validate_scope_exclusivity(objs) ==
    LET conflicts == ConflictsOfWaves(objs, WaveKeys(objs))
    IN  [valid |-> Len(conflicts) = 0,
         conflicts |-> conflicts,
         waves_checked |-> Len(WaveKeys(objs)),
         total_objectives |-> Len(objs)]

(***************************************************************************)
(* EnhancedOrchestrator helpers                                            *)
(***************************************************************************)
\* A wrong classifier: the last branch falls to the enum's last member.
DetermineTaskTypeElseEnhancement(request) ==
    LET request_lower == Lower(request)
    IN  IF AnyWordIn({"reset", "refactor all", "clean up", "restructure"}, request_lower)
        THEN "reset"
        ELSE IF AnyWordIn({"bug", "fix", "broken", "error"}, request_lower)
        THEN "bug"
        ELSE IF AnyWordIn({"refactor", "improve", "optimize"}, request_lower)
        THEN "refactor"
        ELSE "enhancement"

\* _determine_task_type
DetermineTaskType(request) ==
    LET request_lower == Lower(request)
    IN  IF AnyWordIn({"reset", "refactor all", "clean up", "restructure"}, request_lower)
        THEN "reset"
        ELSE IF AnyWordIn({"bug", "fix", "broken", "error"}, request_lower)
        THEN "bug"
        ELSE IF AnyWordIn({"refactor", "improve", "optimize"}, request_lower)
        THEN "refactor"
        ELSE "feature"

\* _identify_coordination_points
IdentifyCoordinationPoints(request) ==
    (IF Contains(Lower(request), "auth")
     THEN <<"Auth module must export login/verify functions",
            "UI must call auth functions",
            "Middleware must use auth decorators">>
     ELSE <<>>)
    \o (IF Contains(Lower(request), "test")
        THEN <<"Tests must use interfaces from implementation">>
        ELSE <<>>)

\* _develop_scope_strategy
DevelopScopeStrategy(tt, points) ==
    IF tt = "reset"
    THEN "Parallel RESET: split by module (core, ui, tests) with exclusive scopes"
    ELSE IF Len(points) > 2
    THEN "Multi-wave: independent modules in Wave 1, integration in Wave 2"
    ELSE "Single-wave: single objective with focused scope"

\* _decompose_into_objectives
DecomposeIntoObjectives(report, global_forbid) ==
    IF report.task_type = "reset"
    THEN <<[title |-> "RESET: Core module refactoring", worker_type |-> "claude",
            scope_touch |-> {"src/core/"}, scope_forbid |-> {"tests/", "src/ui/"},
            wave |-> 1],
           [title |-> "RESET: Test suite hardening", worker_type |-> "codex",
            scope_touch |-> {"tests/"}, scope_forbid |-> {"src/"}, wave |-> 1]>>
    ELSE <<[title |-> TitleCase(report.task_type) \o ": "
                        \o SubSeq(report.owner_request, 1,
                                  Min(50, Len(report.owner_request))),
            worker_type |-> "auto",
            scope_touch |-> {"src/"}, scope_forbid |-> global_forbid, wave |-> 1]>>

\* sorted(waves_dict.keys())
RECURSIVE SortedSeq(_)
SortedSeq(S) ==
    IF S = {} THEN <<>>
    ELSE LET m == CHOOSE x \in S : \A y \in S : x <= y
         IN  <<m>> \o SortedSeq(S \ {m})

\* _assign_to_waves
AssignToWaves(objs) ==
    LET keys == SortedSeq({objs[k].wave : k \in 1..Len(objs)})
    IN  [n \in 1..Len(keys) |-> WaveObjs(objs, keys[n])]

\* `obj['wave'] = obj.get('wave', 1) + 1` for every objective titled t.
DeferTitled(objs, t) ==
    [k \in 1..Len(objs) |->
        IF objs[k].title = t THEN [objs[k] EXCEPT !.wave = @ + 1] ELSE objs[k]]

RECURSIVE ResolveEach(_, _)
ResolveEach(objs, conflicts) ==
    IF conflicts = <<>> THEN objs
    ELSE ResolveEach(DeferTitled(objs, Head(conflicts).objective2), Tail(conflicts))

\* A wrong resolver: it does not read the conflicts, and defers every objective
\* that has an earlier objective in its wave.
ResolveDeferLater(objs, v) ==
    [k \in 1..Len(objs) |->
        IF \E i \in 1..(k - 1) : objs[i].wave = objs[k].wave
        THEN [objs[k] EXCEPT !.wave = @ + 1] ELSE objs[k]]

\* _resolve_scope_conflicts
ResolveScopeConflicts(objs, v) == ResolveEach(objs, v.conflicts)

\* _define_integration_contracts: the contracts from objective i on.
RECURSIVE ContractsFrom(_, _, _)
ContractsFrom(objs, i, j) ==
    IF i > Len(objs) THEN <<>>
    ELSE IF j > Len(objs) THEN ContractsFrom(objs, i + 1, i + 2)
    ELSE (IF objs[j].wave > objs[i].wave
          THEN <<[from |-> objs[i].title, to |-> objs[j].title]>>
          ELSE <<>>)
         \o ContractsFrom(objs, i, j + 1)

DefineIntegrationContracts(objs) == ContractsFrom(objs, 1, 2)

\* _estimate_duration: max() raises ValueError on an empty list.
EstimateRaises(objs) == objs = <<>>

NumWaves(objs) ==
    CHOOSE m \in {objs[k].wave : k \in 1..Len(objs)} :
        \A k \in 1..Len(objs) : objs[k].wave <= m

(***************************************************************************)
(* EnhancedOrchestrator: status, sessions, events                          *)
(***************************************************************************)
\* A wrong status: the progress percent counts down.
StatusCountingDown(phase, progress, activity) ==
    [phase |-> phase, progress_percent |-> 100 - progress,
     current_activity |-> activity]

\* OrchestratorStatus(phase, progress_percent, current_activity)
Status(phase, progress, activity) ==
    [phase |-> phase, progress_percent |-> progress, current_activity |-> activity]

\* _update_status, once for each status of `ups` in order; `session` is
\* self.current_session at the time of the calls.
UpdateStatus(session, ups) ==
    /\ current_status' = ups[Len(ups)]
    /\ status_log' = status_log \o ups
    /\ db_states' = IF session # None
                    THEN db_states \o [k \in 1..Len(ups) |->
                            [session_id |-> session,
                             phase |-> ups[k].phase,
                             progress_percent |-> ups[k].progress_percent,
                             activity |-> ups[k].current_activity]]
                    ELSE db_states

\* A wrong generator: the newest event is put before the older ones.
YieldFirst(type, phase, info) ==
    events' = <<[type |-> type, phase |-> phase, info |-> info,
                 status |-> current_status']>> \o events

\* `yield {...}`: the event carries asdict(self.current_status).
Yield(type, phase, info) ==
    events' = Append(events, [type |-> type, phase |-> phase, info |-> info,
                              status |-> current_status'])

\* What analyze_codebase may find under the project root.
CodebaseChoices ==
    {[modules |-> <<>>, entry_points |-> <<>>],
     [modules |-> <<"pkg/mod.py">>, entry_points |-> <<"main.py">>]}

(***************************************************************************)
(* run_analytic_phase, one action for each stretch between two yields      *)
(***************************************************************************)
\* create_session, status 5, yield phase_start
AnalyticStart ==
    /\ epc = "a1"
    /\ current_session' = "session_1"
    /\ UpdateStatus("session_1", <<Status("analytic", 5, "Starting deep analysis...")>>)
    /\ Yield("phase_start", "analytic", None)
    /\ epc' = IF uploaded_files # <<>> THEN "a2" ELSE "a3"
    /\ UNCHANGED <<outsideEngine, team_global_forbid, caller, owner_request,
                   uploaded_files,
                   codebase, task_type, coordination_points, analysis,
                   objectives, handed, waves, validation, plan, passes>>

\* Step 1, `if uploaded_files:` status 10, yield activity
AnalyticCodebaseActivity ==
    /\ epc = "a2"
    /\ UpdateStatus(current_session,
                    <<Status("analytic", 10, "Analyzing codebase structure...")>>)
    /\ Yield("activity", None, "Analyzing codebase structure...")
    /\ epc' = "a2b"
    /\ UNCHANGED <<outsideEngine, team_global_forbid, caller, owner_request,
                   uploaded_files,
                   current_session, codebase, task_type, coordination_points,
                   analysis, objectives, handed, waves, validation, plan, passes>>

\* Step 1, analyze_codebase, yield codebase_analyzed
AnalyticCodebaseAnalyzed ==
    /\ epc = "a2b"
    /\ \E cb \in CodebaseChoices :
          /\ codebase' = cb
          /\ events' = Append(events, [type |-> "codebase_analyzed", phase |-> None,
                                       info |-> Len(cb.modules),
                                       status |-> current_status])
    /\ epc' = "a3"
    /\ UNCHANGED <<outsideEngine, team_global_forbid, caller, owner_request,
                   uploaded_files,
                   current_session, current_status, status_log, db_states,
                   task_type, coordination_points, analysis, objectives, handed,
                   waves, validation, plan, passes>>

\* Step 1, analyze_codebase raises while it reads a file under the project
\* root (item.read_text()): the error leaves run_analytic_phase and its caller
AnalyticCodebaseRaises ==
    /\ epc = "a2b"
    /\ epc' = "raised"
    /\ UNCHANGED <<outsideEngine, team_global_forbid, caller, owner_request,
                   uploaded_files,
                   current_session, current_status, status_log, db_states,
                   events, codebase, task_type, coordination_points, analysis,
                   objectives, handed, waves, validation, plan, passes>>

\* Step 2, status 20, _determine_task_type, yield task_type_determined
AnalyticTaskType ==
    /\ epc = "a3"
    /\ UpdateStatus(current_session,
                    <<Status("analytic", 20, "Determining task type...")>>)
    /\ task_type' = DetermineTaskType(owner_request)
    /\ Yield("task_type_determined", None, task_type')
    /\ epc' = "a4"
    /\ UNCHANGED <<outsideEngine, team_global_forbid, caller, owner_request,
                   uploaded_files,
                   current_session, codebase, coordination_points, analysis,
                   objectives, handed, waves, validation, plan, passes>>

\* Step 3, status 40, _identify_coordination_points, yield coordination_points
AnalyticCoordinationPoints ==
    /\ epc = "a4"
    /\ UpdateStatus(current_session,
                    <<Status("analytic", 40, "Identifying coordination points...")>>)
    /\ coordination_points' = IdentifyCoordinationPoints(owner_request)
    /\ Yield("coordination_points", None, coordination_points')
    /\ epc' = "a5"
    /\ UNCHANGED <<outsideEngine, team_global_forbid, caller, owner_request,
                   uploaded_files,
                   current_session, codebase, task_type, analysis, objectives,
                   handed, waves, validation, plan, passes>>

\* Step 4, status 60, _develop_scope_strategy, yield scope_strategy
AnalyticScopeStrategy ==
    /\ epc = "a5"
    /\ UpdateStatus(current_session,
                    <<Status("analytic", 60, "Developing scope allocation strategy...")>>)
    /\ Yield("scope_strategy", None,
             DevelopScopeStrategy(task_type, coordination_points))
    /\ epc' = "a6"
    /\ UNCHANGED <<outsideEngine, team_global_forbid, caller, owner_request,
                   uploaded_files,
                   current_session, codebase, task_type, coordination_points,
                   analysis, objectives, handed, waves, validation, plan, passes>>

\* Step 5, status 80, the AnalysisReport, status IDLE 100, yield phase_complete
AnalyticComplete ==
    /\ epc = "a6"
    /\ UpdateStatus(current_session,
                    <<Status("analytic", 80, "Generating Analysis Report..."),
                      Status("idle", 100, "Analysis complete")>>)
    /\ analysis' = [session_id |-> current_session,
                    owner_request |-> owner_request,
                    uploaded_files |-> uploaded_files,
                    coordination_points |-> coordination_points,
                    identified_modules |-> IF codebase # NoneRec THEN codebase.modules
                                           ELSE <<>>,
                    scope_strategy |-> DevelopScopeStrategy(task_type,
                                                            coordination_points),
                    task_type |-> task_type]
    /\ Yield("phase_complete", "analytic", analysis')
    /\ epc' = IF caller = "run_full_cycle" THEN "p1" ELSE "analytic_done"
    /\ UNCHANGED <<outsideEngine, team_global_forbid, caller, owner_request,
                   uploaded_files,
                   current_session, codebase, task_type, coordination_points,
                   objectives, handed, waves, validation, plan, passes>>

(***************************************************************************)
(* run_planning_phase, one action for each stretch between two yields      *)
(***************************************************************************)
\* status 5, yield phase_start
PlanningStart ==
    /\ epc = "p1"
    /\ UpdateStatus(current_session,
                    <<Status("planning", 5, "Starting coordination planning...")>>)
    /\ Yield("phase_start", "planning", None)
    /\ epc' = "p2"
    /\ UNCHANGED <<outsideEngine, team_global_forbid, caller, owner_request,
                   uploaded_files,
                   current_session, codebase, task_type, coordination_points,
                   analysis, objectives, handed, waves, validation, plan, passes>>

\* Step 1, status 20, _decompose_into_objectives, yield objectives_created
PlanningDecompose ==
    /\ epc = "p2"
    /\ UpdateStatus(current_session,
                    <<Status("planning", 20, "Decomposing into objectives...")>>)
    /\ objectives' = DecomposeIntoObjectives(analysis, team_global_forbid)
    /\ handed' = objectives'
    /\ Yield("objectives_created", None, Len(objectives'))
    /\ epc' = "p3"
    /\ UNCHANGED <<outsideEngine, team_global_forbid, caller, owner_request,
                   uploaded_files,
                   current_session, codebase, task_type, coordination_points,
                   analysis, waves, validation, plan, passes>>

\* Step 2, status 40, _assign_to_waves, yield waves_created
PlanningAssignWaves ==
    /\ epc = "p3"
    /\ UpdateStatus(current_session,
                    <<Status("planning", 40, "Assigning objectives to waves...")>>)
    /\ waves' = AssignToWaves(objectives)
    /\ Yield("waves_created", None, Len(waves'))
    /\ epc' = "p4"
    /\ UNCHANGED <<outsideEngine, team_global_forbid, caller, owner_request,
                   uploaded_files,
                   current_session, codebase, task_type, coordination_points,
                   analysis, objectives, handed, validation, plan, passes>>

\* Step 3, status VALIDATION 60, validate_scope_exclusivity, yield scope_validated
PlanningValidate ==
    /\ epc = "p4"
    /\ UpdateStatus(current_session,
                    <<Status("validation", 60, "Validating scope exclusivity...")>>)
    /\ validation' = validate_scope_exclusivity(objectives)
    /\ Yield("scope_validated", None, validation')
    /\ epc' = "p5"
    /\ UNCHANGED <<outsideEngine, team_global_forbid, caller, owner_request,
                   uploaded_files,
                   current_session, codebase, task_type, coordination_points,
                   analysis, objectives, handed, waves, plan, passes>>

\* `if not validation['valid']:` resolve, regroup, validate again; Step 4, status
\* 80, contracts; Step 5, the CoordinationPlan, status IDLE 100, yield
\* phase_complete.  _estimate_duration raises on an empty objective list, after
\* the status was set to 80 and before the plan exists.
PlanningComplete ==
    /\ epc = "p5"
    /\ LET resolved == IF ~validation.valid
                       THEN ResolveScopeConflicts(objectives, validation)
                       ELSE objectives
           regrouped == IF ~validation.valid THEN AssignToWaves(resolved) ELSE waves
           revalidated == IF ~validation.valid
                          THEN validate_scope_exclusivity(resolved)
                          ELSE validation
       IN  /\ objectives' = resolved
           /\ waves' = regrouped
           /\ validation' = revalidated
           /\ IF EstimateRaises(resolved)
              THEN /\ UpdateStatus(current_session,
                        <<Status("planning", 80, "Defining integration contracts...")>>)
                   /\ epc' = "raised"
                   /\ UNCHANGED <<plan, events>>
              ELSE /\ UpdateStatus(current_session,
                        <<Status("planning", 80, "Defining integration contracts..."),
                          Status("idle", 100, "Planning complete")>>)
                   /\ plan' = [plan_type |-> analysis.task_type,
                               waves |-> regrouped,
                               integration_contracts |->
                                   DefineIntegrationContracts(resolved),
                               scope_validation |-> revalidated,
                               global_forbid |-> team_global_forbid,
                               estimated_waves |-> NumWaves(resolved)]
                   /\ Yield("phase_complete", "planning", plan')
                   /\ epc' = IF caller = "run_full_cycle" THEN "f1"
                             ELSE "planning_done"
    /\ UNCHANGED <<outsideEngine, team_global_forbid, caller, owner_request,
                   uploaded_files,
                   current_session, codebase, task_type, coordination_points,
                   analysis, handed, passes>>

(***************************************************************************)
(* run_full_cycle after the two phases                                     *)
(***************************************************************************)
\* Phase 3 (stub): yield info
CycleExecutionInfo ==
    /\ epc = "f1"
    /\ events' = Append(events, [type |-> "info", phase |-> None,
            info |-> "Execution phase requires worker MCP servers (Phase 3 implementation)",
            status |-> None])
    /\ epc' = "f2"
    /\ UNCHANGED <<outsideEngine, team_global_forbid, caller, owner_request,
                   uploaded_files,
                   current_session, current_status, status_log, db_states,
                   codebase, task_type, coordination_points, analysis,
                   objectives, handed, waves, validation, plan, passes>>

\* objectives_completed of the AccomplishmentReport
RECURSIVE TitlesOfWaves(_)
TitlesOfWaves(ws) ==
    IF ws = <<>> THEN <<>>
    ELSE [k \in 1..Len(Head(ws)) |-> Head(ws)[k].title] \o TitlesOfWaves(Tail(ws))

\* Phase 4: the AccomplishmentReport, yield cycle_complete
CycleComplete ==
    /\ epc = "f2"
    /\ events' = Append(events, [type |-> "cycle_complete", phase |-> None,
            info |-> [session_id |-> current_session,
                      objectives_completed |-> TitlesOfWaves(plan.waves),
                      integration_status |-> "pending"],
            status |-> None])
    /\ epc' = "done"
    /\ UNCHANGED <<outsideEngine, team_global_forbid, caller, owner_request,
                   uploaded_files,
                   current_session, current_status, status_log, db_states,
                   codebase, task_type, coordination_points, analysis,
                   objectives, handed, waves, validation, plan, passes>>

(***************************************************************************)
(* Passes a caller runs on the objectives of an emitted plan (the validator *)
(* is a tool of its own; a caller that loops resolution calls both).        *)
(***************************************************************************)
\* validate_scope_exclusivity on the plan's objectives
Revalidate ==
    /\ epc = "planning_done"
    /\ Len(passes) < MaxPasses
    /\ validation' = validate_scope_exclusivity(objectives)
    /\ passes' = Append(passes, "validate")
    /\ UNCHANGED <<outsideEngine, team_global_forbid, caller, owner_request,
                   uploaded_files,
                   current_session, current_status, status_log, db_states, epc,
                   events, codebase, task_type, coordination_points, analysis,
                   objectives, handed, waves, plan>>

\* _resolve_scope_conflicts with the last validation result, and regrouping
Reresolve ==
    /\ epc = "planning_done"
    /\ Len(passes) < MaxPasses
    /\ objectives' = ResolveScopeConflicts(objectives, validation)
    /\ waves' = AssignToWaves(objectives')
    /\ passes' = Append(passes, "resolve")
    /\ UNCHANGED <<outsideEngine, team_global_forbid, caller, owner_request,
                   uploaded_files,
                   current_session, current_status, status_log, db_states, epc,
                   events, codebase, task_type, coordination_points, analysis,
                   handed, validation, plan>>

(***************************************************************************)
(* The engine as constructed, and the two specifications over it           *)
(***************************************************************************)
EngineConstructed ==
    /\ current_session = None
    /\ current_status = Status("idle", 0, "Ready")
    /\ status_log = <<>>
    /\ db_states = <<>>
    /\ events = <<>>
    /\ codebase = NoneRec
    /\ task_type = None
    /\ coordination_points = <<>>
    /\ analysis = NoneRec
    /\ objectives = <<>>
    /\ handed = <<>>
    /\ waves = <<>>
    /\ validation = NoneRec
    /\ plan = NoneRec
    /\ passes = <<>>

\* run_full_cycle(owner_request, uploaded_files) on a fresh engine.
InitEngine ==
    /\ EngineConstructed
    /\ HubConstructed
    /\ SupConstructed
    /\ ExecIdle
    /\ OthersIdle
    /\ team_global_forbid \in GlobalForbidChoices
    /\ caller = "run_full_cycle"
    /\ owner_request \in Requests
    /\ uploaded_files \in {<<>>, <<"app.py">>}
    /\ epc = "a1"

NextEngine ==
    \/ AnalyticStart
    \/ AnalyticCodebaseActivity
    \/ AnalyticCodebaseAnalyzed
    \/ AnalyticCodebaseRaises
    \/ AnalyticTaskType
    \/ AnalyticCoordinationPoints
    \/ AnalyticScopeStrategy
    \/ AnalyticComplete
    \/ PlanningStart
    \/ PlanningDecompose
    \/ PlanningAssignWaves
    \/ PlanningValidate
    \/ PlanningComplete
    \/ CycleExecutionInfo
    \/ CycleComplete

SpecEngine == InitEngine /\ [][NextEngine]_vars

\* run_planning_phase on a fresh engine (no session), at the point where its
\* planning step receives the objective list: any list of wave-tagged
\* objectives.
InitPlan ==
    /\ HubConstructed
    /\ SupConstructed
    /\ ExecIdle
    /\ OthersIdle
    /\ team_global_forbid = {".git/"}
    /\ caller = "run_planning_phase"
    /\ owner_request = ""
    /\ uploaded_files = <<>>
    /\ current_session = None
    /\ current_status = Status("planning", 20, "Decomposing into objectives...")
    /\ status_log = <<Status("planning", 5, "Starting coordination planning..."),
                      Status("planning", 20, "Decomposing into objectives...")>>
    /\ db_states = <<>>
    /\ codebase = NoneRec
    /\ task_type = None
    /\ coordination_points = <<>>
    /\ analysis = [session_id |-> None, owner_request |-> "",
                   uploaded_files |-> <<>>, coordination_points |-> <<>>,
                   identified_modules |-> <<>>,
                   scope_strategy |-> DevelopScopeStrategy("feature", <<>>),
                   task_type |-> "feature"]
    /\ objectives \in GivenObjectiveLists
    /\ handed = objectives
    /\ events = <<[type |-> "phase_start", phase |-> "planning", info |-> None,
                   status |-> Status("planning", 5,
                                     "Starting coordination planning...")],
                  [type |-> "objectives_created", phase |-> None,
                   info |-> Len(objectives), status |-> current_status]>>
    /\ waves = <<>>
    /\ validation = NoneRec
    /\ plan = NoneRec
    /\ passes = <<>>
    /\ epc = "p3"

NextPlan ==
    \/ PlanningAssignWaves
    \/ PlanningValidate
    \/ PlanningComplete
    \/ Revalidate
    \/ Reresolve

SpecPlan == InitPlan /\ [][NextPlan]_vars

(***************************************************************************)
(* Properties of the planning step                                         *)
(***************************************************************************)
\* The pairs (i, j), i before j, of objectives with the same wave number and a
\* path in common.
OverlappingPairs(objs) ==
    {pr \in (1..Len(objs)) \X (1..Len(objs)) :
        /\ pr[1] < pr[2]
        /\ objs[pr[1]].wave = objs[pr[2]].wave
        /\ objs[pr[1]].scope_touch \cap objs[pr[2]].scope_touch # {}}

\* The conflict record of a pair.
ConflictOf(objs, pr) ==
    [wave |-> objs[pr[1]].wave,
     objective1 |-> objs[pr[1]].title,
     objective2 |-> objs[pr[2]].title,
     overlap |-> objs[pr[1]].scope_touch \cap objs[pr[2]].scope_touch]

\* No two objectives of one wave of a plan share a path.
WavesDisjoint(p) ==
    \A n \in 1..Len(p.waves) : \A i, j \in 1..Len(p.waves[n]) :
        i < j => p.waves[n][i].scope_touch \cap p.waves[n][j].scope_touch = {}

\* The scope_validated event of the run.
ScopeValidated == events[CHOOSE k \in 1..Len(events) : events[k].type = "scope_validated"]

\* `validation` is the validator's result for `objectives` as they are now.
ValidationCurrent ==
    \/ epc = "p5"
    \/ plan # NoneRec /\ passes = <<>>
    \/ passes # <<>> /\ passes[Len(passes)] = "validate"

\* C1: every CoordinationPlan the planning step emits has pairwise-disjoint
\* scope_touch sets inside each of its waves, whatever objective list the step
\* was handed.
C1_PlanWavesDisjoint == plan # NoneRec => WavesDisjoint(plan)

\* C2: in every CoordinationPlan run_planning_phase emits, no objective's
\* scope_touch shares a path with the plan's global_forbid.
C2_PlanAvoidsGlobalForbid ==
    plan # NoneRec =>
        \A n \in 1..Len(plan.waves) : \A i \in 1..Len(plan.waves[n]) :
            plan.waves[n][i].scope_touch \cap plan.global_forbid = {}

\* C7: two objectives handed in the same wave w with overlapping scope_touch:
\* validation reports exactly one conflict, resolution leaves the first in wave
\* w and puts the second in wave w + 1, and the validation after it reports no
\* conflict.
C7_TwoOverlappingDeferred ==
    ( /\ Len(handed) = 2
      /\ handed[1].wave = handed[2].wave
      /\ handed[1].scope_touch \cap handed[2].scope_touch # {}
      /\ plan # NoneRec
      /\ passes = <<>> )
    => /\ Len(ScopeValidated.info.conflicts) = 1
       /\ objectives[1].wave = handed[1].wave
       /\ objectives[2].wave = handed[2].wave + 1
       /\ plan.scope_validation.conflicts = <<>>

C9_ResolutionIdempotent ==
    [][ /\ (PlanningValidate \/ Revalidate) => objectives' = objectives
        /\ (validation # NoneRec /\ validation.valid /\ Revalidate)
              => validation'.valid /\ validation'.conflicts = <<>>
        /\ (validation # NoneRec /\ validation.valid /\ Reresolve)
              => /\ Len(objectives') = Len(objectives)
                 /\ \A k \in 1..Len(objectives) :
                        objectives'[k].wave = objectives[k].wave ]_vars

\* C9 witness: a plan of two objectives in one wave was found valid and then
\* resolved with that result.
C9_Witness ==
    /\ passes = <<"resolve">>
    /\ validation.valid
    /\ Len(objectives) = 2
    /\ objectives[1].wave = objectives[2].wave
    /\ objectives = handed

(***************************************************************************)
(* Properties of the ANALYTIC phase                                        *)
(***************************************************************************)
\* The words _determine_task_type looks for.
ClassificationKeywords ==
    {"reset", "refactor all", "clean up", "restructure", "bug", "fix", "broken",
     "error", "refactor", "improve", "optimize"}

EventTypes == {events[k].type : k \in 1..Len(events)}

PhaseRank(phase) ==
    CASE phase = "idle" -> 0
      [] phase = "analytic" -> 1
      [] phase = "planning" -> 2
      [] phase = "validation" -> 3
      [] phase = "execution" -> 4
      [] phase = "integration" -> 5
      [] phase = "post_execution" -> 6
      [] phase = "auto_documentation" -> 7
      [] phase = "completed" -> 8
      [] OTHER -> 9

\* The phases the status went through, from the constructed status on
PhasesOfRun == <<"idle">> \o [k \in 1..Len(status_log) |-> status_log[k].phase]

\* C11: over one run the phase of the status only moves forward along IDLE,
\* ANALYTIC, PLANNING, VALIDATION, ..., COMPLETED, or to FAILED: no status
\* update sets a phase that comes earlier than the phase before it.
C11_PhaseOnlyForward ==
    \A k \in 1..(Len(PhasesOfRun) - 1) :
        \/ PhasesOfRun[k + 1] = "failed"
        \/ PhaseRank(PhasesOfRun[k + 1]) >= PhaseRank(PhasesOfRun[k])

\* The event stream of the run has ended: run_full_cycle returned or raised.
StreamEnded == epc \in {"done", "raised"}

\* C12: the event stream of a run_full_cycle run ends with a terminal event:
\* cycle_complete, or a failure event when a phase raised.
C12_StreamEndsWithTerminalEvent ==
    StreamEnded =>
        /\ events # <<>>
        /\ \/ epc = "done" /\ events[Len(events)].type = "cycle_complete"
           \/ epc = "raised" /\ events[Len(events)].type \in {"failure", "error", "failed"}

\* C13: when the event stream has ended the status phase is COMPLETED after a
\* normal finish and FAILED after an error inside a phase.
C13_FinalPhaseCompletedOrFailed ==
    /\ epc = "done" => current_status.phase = "completed"
    /\ epc = "raised" => current_status.phase = "failed"

\* The contract between two objectives
ContractOf(obj1, obj2) == [from |-> obj1.title, to |-> obj2.title]

\* C21: the plan holds a contract {from: A, to: B} for every pair of its
\* objectives A, B with wave(A) < wave(B), whichever of the two comes first in
\* the objective list, and every contract it holds is one of these (none joins
\* two objectives of one wave).
C21_ContractsForEveryWavePair ==
    (plan # NoneRec /\ passes = <<>>) =>
        LET objs      == objectives
            contracts == Range(plan.integration_contracts)
            ordered   == {pr \in (1..Len(objs)) \X (1..Len(objs)) :
                            objs[pr[1]].wave < objs[pr[2]].wave}
        IN  /\ \A pr \in ordered : ContractOf(objs[pr[1]], objs[pr[2]]) \in contracts
            /\ \A c \in contracts :
                  \E pr \in ordered : c = ContractOf(objs[pr[1]], objs[pr[2]])

\* C24: conflict resolution with the validator's result for the objectives
\* changes nothing but waves of deferred objectives: the list keeps its length,
\* every objective keeps its title, scope_touch and scope_forbid, no wave is
\* lowered, and a wave is raised only for an objective that is the second of a
\* conflicting pair.
C24_ResolutionChangesOnlyDeferredWaves ==
    [][ValidationCurrent =>
          /\ Len(objectives') = Len(objectives)
          /\ \A k \in 1..Len(objectives) :
                /\ objectives'[k].title = objectives[k].title
                /\ objectives'[k].scope_touch = objectives[k].scope_touch
                /\ objectives'[k].scope_forbid = objectives[k].scope_forbid
                /\ objectives'[k].wave >= objectives[k].wave
                /\ objectives'[k].wave # objectives[k].wave
                      => \E pr \in OverlappingPairs(objectives) : pr[2] = k]_vars

\* The statuses of the run, from the constructed status on
StatusesOfRun == <<Status("idle", 0, "Ready")>> \o status_log

\* C26: the progress percent of every status is between 0 and 100, and of two
\* consecutive status updates with the same phase the later has no lower
\* progress percent.
C26_ProgressBoundedAndMonotone ==
    /\ current_status.progress_percent \in 0..100
    /\ \A k \in 1..Len(StatusesOfRun) : StatusesOfRun[k].progress_percent \in 0..100
    /\ \A k \in 1..(Len(StatusesOfRun) - 1) :
          StatusesOfRun[k + 1].phase = StatusesOfRun[k].phase
              => StatusesOfRun[k + 1].progress_percent
                    >= StatusesOfRun[k].progress_percent

\* C26 witness: a full cycle has ended, after the status updates of both phases.
C26_Witness ==
    /\ epc = "done"
    /\ Len(status_log) >= 12
    /\ \E k \in 1..(Len(status_log) - 1) :
          /\ status_log[k + 1].phase = status_log[k].phase
          /\ status_log[k + 1].progress_percent > status_log[k].progress_percent

(***************************************************************************)
(* ConnectionManager (ap_studio_backend.py)                                *)
(***************************************************************************)
\* list.remove(x): the first occurrence goes.
RECURSIVE RemoveFirst(_, _)
RemoveFirst(list, x) ==
    IF list = <<>> THEN <<>>
    ELSE IF Head(list) = x THEN Tail(list)
    ELSE <<Head(list)>> \o RemoveFirst(Tail(list), x)

\* A wrong disconnect: the socket stays in the list.
DisconnectNothing(list, x) == list

\* disconnect(websocket, channel) on the list of the channel
DisconnectFrom(list, x) == IF x \in Range(list) THEN RemoveFirst(list, x) ELSE list

\* `for conn in disconnected: self.disconnect(conn, channel)`
RECURSIVE DisconnectEach(_, _)
DisconnectEach(list, gone) ==
    IF gone = <<>> THEN list
    ELSE DisconnectEach(DisconnectFrom(list, Head(gone)), Tail(gone))

\* A wrong broadcast loop: a send that raises ends the loop.
ResumeAtEndOnRaise(idx, len, raised) == IF raised THEN len ELSE idx

\* Where the `for` loop goes on after a send returned or raised: the except
\* clause swallows the error and the iterator keeps its index.
ResumeAt(idx, len, raised) == idx

\* The broadcasts that are inside their loop on channel ch, b excepted.
OthersIn(ch, b) ==
    {o \in Broadcasts \ {b} : bc[o].st = "sending" /\ bc[o].channel = ch}

\* bc with a removal from the list of ch noted in the broadcasts it cuts across.
NoteRemoval(f, ch, b, removed) ==
    [o \in Broadcasts |->
        IF removed /\ o \in OthersIn(ch, b)
        THEN [f[o] EXCEPT !.cut = TRUE] ELSE f[o]]

\* A wrong connect: the socket is appended to the list of every channel.
ConnectEverywhere(c, ch) ==
    /\ sockets[c].state = "new"
    /\ \A d \in 1..(c - 1) : sockets[d].state # "new"
    /\ sockets' = [sockets EXCEPT ![c] = [state |-> "open", channel |-> ch,
                                handler |-> "running"]]
    /\ active_connections' = [k \in Channels |-> Append(active_connections[k], c)]
    /\ UNCHANGED <<bc, outsideHub>>

\* connect(websocket, channel): accept, then append. Sockets are numbered in
\* the order in which they connect.
Connect(c, ch) ==
    /\ sockets[c].state = "new"
    /\ \A d \in 1..(c - 1) : sockets[d].state # "new"
    /\ sockets' = [sockets EXCEPT ![c] = [state |-> "open", channel |-> ch,
                                handler |-> "running"]]
    /\ active_connections' = [active_connections EXCEPT ![ch] = Append(@, c)]
    /\ UNCHANGED <<bc, outsideHub>>

\* The client goes away: every later send_json on the socket raises.
ClientCloses(c) ==
    /\ sockets[c].state = "open"
    /\ sockets' = [sockets EXCEPT ![c].state = "closed"]
    /\ UNCHANGED <<active_connections, bc, outsideHub>>

\* The endpoint's `except` branches: disconnect(websocket, channel), once, with
\* the channel the socket joined.
Disconnect(c) ==
    /\ sockets[c].handler = "running"
    /\ LET ch == sockets[c].channel
       IN  /\ active_connections' =
                [active_connections EXCEPT ![ch] = DisconnectFrom(@, c)]
           /\ bc' = NoteRemoval(bc, ch, 0, c \in Range(active_connections[ch]))
    /\ sockets' = [sockets EXCEPT ![c].state = "closed", ![c].handler = "done"]
    /\ UNCHANGED outsideHub

\* The loop of broadcast() from index idx on, for call b on channel ch: the next
\* socket is fetched and its send awaited, or the list is exhausted, the sockets
\* that raised are disconnected and the call returns.
BroadcastLoop(b, ch, idx, disconnected, delivered, start) ==
    LET list == active_connections[ch]
    IN  IF idx < Len(list)
        THEN /\ bc' = [bc EXCEPT ![b] =
                        [st |-> "sending", channel |-> ch, idx |-> idx + 1,
                         cur |-> list[idx + 1], disconnected |-> disconnected,
                         delivered |-> delivered, start |-> start,
                         cut |-> bc[b].cut]]
             /\ UNCHANGED active_connections
        ELSE /\ active_connections' =
                    [active_connections EXCEPT ![ch] = DisconnectEach(@, disconnected)]
             /\ bc' = [NoteRemoval(bc, ch, b,
                                   active_connections'[ch] # active_connections[ch])
                          EXCEPT ![b] =
                        [st |-> "done", channel |-> ch, idx |-> idx, cur |-> 0,
                         disconnected |-> disconnected, delivered |-> delivered,
                         start |-> start, cut |-> bc[b].cut]]

\* broadcast(message, channel) is called: up to the first await. Calls are
\* numbered in the order in which they are made.
BroadcastStart(b, ch) ==
    /\ bc[b].st = "idle"
    /\ \A o \in 1..(b - 1) : bc[o].st # "idle"
    /\ BroadcastLoop(b, ch, 0, <<>>, <<>>, active_connections[ch])
    /\ UNCHANGED <<sockets, outsideHub>>

\* `await connection.send_json(message)` returns or raises; the loop goes on to
\* the next await or to the end of the call
BroadcastSendReturns(b) ==
    /\ bc[b].st = "sending"
    /\ LET raised == sockets[bc[b].cur].state # "open"
           len    == Len(active_connections[bc[b].channel])
       IN  BroadcastLoop(b, bc[b].channel,
                         ResumeAt(bc[b].idx, len, raised),
                         IF raised THEN Append(bc[b].disconnected, bc[b].cur)
                                   ELSE bc[b].disconnected,
                         IF raised THEN bc[b].delivered
                                   ELSE Append(bc[b].delivered, bc[b].cur),
                         bc[b].start)
    /\ UNCHANGED <<sockets, outsideHub>>

NextHub ==
    \/ \E c \in Conns, ch \in Channels : Connect(c, ch)
    \/ \E c \in Conns : ClientCloses(c)
    \/ \E c \in Conns : Disconnect(c)
    \/ \E b \in Broadcasts, ch \in Channels : BroadcastStart(b, ch)
    \/ \E b \in Broadcasts : BroadcastSendReturns(b)

\* The engine as constructed and idle, for the specifications of the other parts.
EngineIdle ==
    /\ EngineConstructed
    /\ team_global_forbid = {}
    /\ caller = None
    /\ owner_request = ""
    /\ uploaded_files = <<>>
    /\ epc = "idle"

InitHub ==
    HubConstructed /\ EngineIdle /\ SupConstructed /\ ExecIdle /\ OthersIdle

SpecHub == InitHub /\ [][NextHub]_vars

(***************************************************************************)
(* The event stream of a full cycle                                       *)
(***************************************************************************)
\* The events a full cycle is known by, as <<type, phase>>, in their order
CycleEvents ==
    << <<"phase_start", "analytic">>, <<"task_type_determined", None>>,
       <<"coordination_points", None>>, <<"scope_strategy", None>>,
       <<"phase_complete", "analytic">>, <<"phase_start", "planning">>,
       <<"objectives_created", None>>, <<"waves_created", None>>,
       <<"scope_validated", None>>, <<"phase_complete", "planning">>,
       <<"cycle_complete", None>> >>

\* The events of the run so far that are of these kinds, in their order
CycleEventsSeen ==
    LET kinds == [k \in 1..Len(events) |-> <<events[k].type, events[k].phase>>]
    IN  SelectSeq(kinds, LAMBDA e : e \in Range(CycleEvents))

\* C32: the events of a run_full_cycle run come in the fixed order, each once:
\* at every moment the events seen so far are the first ones of the list, and
\* a run that has ended without an error has yielded all of them,
\* cycle_complete being the last event of the stream.
C32_EventsInFixedOrder ==
    /\ Len(CycleEventsSeen) <= Len(CycleEvents)
    /\ CycleEventsSeen = SubSeq(CycleEvents, 1, Len(CycleEventsSeen))
    /\ epc = "done" => /\ CycleEventsSeen = CycleEvents
                       /\ events[Len(events)].type = "cycle_complete"

\* A run with uploaded files has ended: the stream holds the eleven events and
\* others between them.
C32_Witness ==
    /\ epc = "done"
    /\ Len(events) > Len(CycleEvents)
    /\ \E k \in 1..Len(events) : events[k].type = "codebase_analyzed"

\* The row save_orchestrator_state writes for a status
SnapshotOf(st) ==
    [phase |-> st.phase, progress_percent |-> st.progress_percent,
     activity |-> st.current_activity]

\* The stored rows without their session id
StoredSnapshots ==
    [k \in 1..Len(db_states) |->
        [phase |-> db_states[k].phase,
         progress_percent |-> db_states[k].progress_percent,
         activity |-> db_states[k].activity]]

\* C34: every status update appends exactly one snapshot with the update's
\* phase, progress and activity to the store: a step that makes status updates
\* appends their snapshots, in order, and nothing else, also in a
\* run_planning_phase on an engine on which no session was created.
C34_EveryStatusPersisted ==
    [][LET made == SubSeq(status_log', Len(status_log) + 1, Len(status_log'))
       IN  StoredSnapshots' =
               StoredSnapshots \o [k \in 1..Len(made) |-> SnapshotOf(made[k])]]_vars

(***************************************************************************)
(* Properties of the ConnectionManager                                     *)
(***************************************************************************)
\* C6: when a broadcast on a channel has returned, every socket that was
\* registered on the channel when it was called and whose send did not fail
\* was sent the message, wherever in the list the failing sockets sit (no other
\* task having removed a socket from the list while the broadcast ran).
C6_BroadcastReachesHealthy ==
    \A b \in Broadcasts :
        (bc[b].st = "done" /\ ~bc[b].cut) =>
            \A c \in Range(bc[b].start) :
                c \in Range(bc[b].delivered) \/ c \in Range(bc[b].disconnected)

\* C6 witness: a broadcast over two sockets has returned; the send to the
\* first one failed and the one after it was sent the message.
C6_Witness ==
    \E b \in Broadcasts :
        /\ bc[b].st = "done"
        /\ ~bc[b].cut
        /\ Len(bc[b].start) = 2
        /\ bc[b].disconnected = <<bc[b].start[1]>>
        /\ bc[b].delivered = <<bc[b].start[2]>>

\* C16: connect, disconnect and broadcast on one channel can be interleaved: a
\* broadcast that has returned has sent the message to every socket that was
\* registered on the channel when it was called and is still registered and
\* open, whatever other tasks did to the list while it was suspended.
C16_InterleavedBroadcastDelivers ==
    \A b \in Broadcasts :
        bc[b].st = "done" =>
            \A c \in Range(bc[b].start) :
                (c \in Range(active_connections[bc[b].channel])
                    /\ sockets[c].state = "open")
                => c \in Range(bc[b].delivered)

\* C30: channels are independent: a broadcast on a channel sends to no socket
\* of another channel, the list of a channel holds only sockets that joined
\* that channel, and a step changes the list of a channel only if it is the
\* connect or disconnect of one of that channel's sockets or the end of a
\* broadcast on that channel (the eviction of the sockets that failed).
C30_ChannelsIndependent ==
    [][ /\ \A b \in Broadcasts : \A c \in Range(bc'[b].delivered) :
              sockets'[c].channel = bc'[b].channel
        /\ \A ch \in Channels : \A c \in Range(active_connections'[ch]) :
              sockets'[c].channel = ch
        /\ \A ch \in Channels :
              active_connections'[ch] # active_connections[ch] =>
                  \/ \E c \in Conns : /\ sockets'[c] # sockets[c]
                                      /\ sockets'[c].channel = ch
                  \/ \E b \in Broadcasts : /\ bc'[b].channel = ch
                                           /\ bc'[b].st = "done"
                                           /\ bc[b].st = "sending" ]_vars

\* C30 witness: a broadcast on one channel has sent to a socket, evicted none
\* of the other channel, and a socket is registered on another channel.
C30_Witness ==
    \E b \in Broadcasts : \E c, d \in Conns :
        /\ bc[b].st = "done"
        /\ c \in Range(bc[b].delivered)
        /\ sockets[d].channel \in Channels \ {bc[b].channel}
        /\ d \in Range(active_connections[sockets[d].channel])

\* Broadcast b returns in this step.
BroadcastReturns(b) == bc[b].st # "done" /\ bc'[b].st = "done"

\* Another task took socket c off its channel: its endpoint called disconnect,
\* or another broadcast evicted it.
RemovedElsewhere(c, b) ==
    \/ sockets'[c].handler = "done"
    \/ \E o \in Broadcasts \ {b} :
          bc'[o].st = "done" /\ c \in Range(bc'[o].disconnected)

\* No element occurs twice in the sequence.
NoRepeats(seq) == \A i, j \in 1..Len(seq) : seq[i] = seq[j] => i = j

MessageId(n) == [prefix |-> "worker_1", n |-> n]

\* A wrong list_tools: the request id does not follow the counter.
ListToolsRequestIdFixed(n) == [prefix |-> "list_tools", n |-> 0]

ListToolsRequestId(n) == [prefix |-> "list_tools", n |-> n]

NoId == [prefix |-> None, n |-> 0]

MessageKeys == {"type", "id", "timestamp", "payload"}

\* str.strip() for the blanks and newlines that occur here
IsBlank(ch) == ch = " " \/ ch = "\n"

RECURSIVE StripLeft(_)
StripLeft(text) ==
    IF Len(text) > 0 /\ IsBlank(SubSeq(text, 1, 1))
    THEN StripLeft(SubSeq(text, 2, Len(text))) ELSE text

RECURSIVE StripRight(_)
StripRight(text) ==
    IF Len(text) > 0 /\ IsBlank(SubSeq(text, Len(text), Len(text)))
    THEN StripRight(SubSeq(text, 1, Len(text) - 1)) ELSE text

Strip(text) == StripLeft(StripRight(text))

\* A line of the worker's stdout: its text (shortened for whole messages) and
\* the JSON document the text is: none, a scalar, or an object with its keys
\* and, of the values, those the supervisor looks at.
Line(raw, syntax, keys, type, request_id, tool) ==
    [raw |-> raw, syntax |-> syntax, keys |-> keys, type |-> type,
     request_id |-> request_id, tool |-> tool]

MessageLine(type, request_id, tool) ==
    Line("{\"type\": \"" \o type \o "\", ...}\n", "object", MessageKeys, type,
         request_id, tool)

\* The tools of a worker that has used several
ToolNames ==
    <<"read", "write", "grep", "glob", "bash", "test", "lint", "format", "git",
      "diff">>

\* The tool_use lines of a worker that has used the first k tools once each
ToolUseLines(k) == [i \in 1..k |-> MessageLine("tool_use", NoId, ToolNames[i])]

\* Lines that are no message
ChatterLines ==
    { Line("  loading model\n", "none", {}, None, NoId, None),
      Line("42\n", "scalar", {}, None, NoId, None),
      Line("{\"type\": \"log\"}\n", "object", {"type"}, "log", NoId, None) }

\* The request ids a worker can echo: the id of a list_tools message it was
\* sent, or the request_id in that message's payload.
EchoableIds ==
    UNION { {stdin[i].id, stdin[i].request_id} :
            i \in {k \in 1..Len(stdin) : stdin[k].type = "list_tools"} }

\* What the worker may write to stdout next
WorkerLines ==
    ChatterLines
    \cup { MessageLine("log", NoId, None), MessageLine("tool_use", NoId, "edit") }
    \cup { MessageLine(type, NoId, None) :
            type \in {"progress", "task_started", "task_complete", "task_error"} }
    \cup { MessageLine("tools_response", r, None) : r \in EchoableIds }

\* MCPMessage.from_json(data): json.loads, then obj['type'], obj['id'],
\* obj['timestamp'], obj['payload']
from_json(line) ==
    IF line.syntax = "none" THEN [raises |-> "JSONDecodeError"]
    ELSE IF line.syntax # "object" THEN [raises |-> "TypeError"]
    ELSE IF ~(MessageKeys \subseteq line.keys) THEN [raises |-> "KeyError"]
    ELSE [raises |-> None]

\* The calls on the broadcaster
Activity(activity_type, description, tool_name) ==
    [call |-> "broadcast_activity", kind |-> activity_type,
     text |-> description, tool_name |-> tool_name]

ErrorBroadcast(error) ==
    [call |-> "broadcast_error", kind |-> "worker_error", text |-> error,
     tool_name |-> None]

MetricsBroadcast ==
    [call |-> "broadcast_metrics", kind |-> "worker_metrics", text |-> "",
     tool_name |-> None]

\* `len(self.metrics.tools_used) % 10`
MetricsEvery == 10

\* A wrong _on_activity: the newest activity is put before the older ones.
OnActivityFirst(bs, activity, used) == <<activity>> \o bs

\* _on_activity(activity): broadcast it, and the metrics at every tenth tool
OnActivity(bs, activity, used) ==
    LET n == Cardinality(DOMAIN used)
    IN  IF n % MetricsEvery = 0 /\ n > 0
        THEN Append(Append(bs, activity), MetricsBroadcast)
        ELSE Append(bs, activity)

\* dict[key] = value
Put(dict, key, value) ==
    [k \in DOMAIN dict \cup {key} |-> IF k = key THEN value ELSE dict[k]]

\* dict.pop(key, None)
Pop(dict, key) == [k \in DOMAIN dict \ {key} |-> dict[k]]

\* dict.get(key, default)
Get(dict, key, default) == IF key \in DOMAIN dict THEN dict[key] ELSE default

(***************************************************************************)
(* MCPServerStdio: the tasks of one supervisor on the event loop           *)
(***************************************************************************)
\* _send_message(msg_type, payload), the process being there
SendMessage(type, request_id) ==
    /\ message_id_counter' = message_id_counter + 1
    /\ stdin' = Append(stdin, [type |-> type, id |-> MessageId(message_id_counter + 1),
                               request_id |-> request_id])

\* _send_message when the write to the worker's stdin raises (the worker has
\* gone): the counter was incremented before the write
SendFails ==
    /\ message_id_counter' = message_id_counter + 1
    /\ UNCHANGED stdin

\* A wrong start(): a failed spawn is raised but not reported.
StartFailsUnreported ==
    /\ turn = "main"
    /\ tpc["main"] = "constructed"
    /\ tpc' = [tpc EXCEPT !["main"] = "spawn_failed"]
    /\ UNCHANGED <<process, running, message_id_counter, pending_requests, stdin,
                   stdout, stderr, broadcasts, tools_used, turn, ready, timer,
                   call, wrote, consumed, metrics, stop, signals, other, outsideSup>>

\* start(): Popen fails; the error is broadcast and raised again
StartFails ==
    /\ turn = "main"
    /\ tpc["main"] = "constructed"
    /\ broadcasts' = Append(broadcasts, ErrorBroadcast("Failed to start worker"))
    /\ tpc' = [tpc EXCEPT !["main"] = "spawn_failed"]
    /\ UNCHANGED <<process, running, message_id_counter, pending_requests, stdin,
                   stdout, stderr, tools_used, turn, ready, timer, call, wrote,
                   consumed, metrics, stop, signals, other, outsideSup>>

\* start(): the process is spawned, the two read tasks are created, the
\* initialize message is sent; nothing in it gives up the thread
Start ==
    /\ turn = "main"
    /\ tpc["main"] = "constructed"
    /\ process' = "alive"
    /\ running' = TRUE
    /\ ready' = ready \o <<"stdout", "stderr">>
    /\ SendMessage("initialize", NoId)
    /\ tpc' = [main |-> "started", stdout |-> "scheduled", stderr |-> "scheduled"]
    /\ UNCHANGED <<pending_requests, stdout, stderr, broadcasts, tools_used, turn,
                   timer, call, wrote, consumed, metrics, stop, signals, other, outsideSup>>

\* start(): the process is spawned and exits at once, so that the write of
\* the initialize message raises; the error is broadcast and raised again
StartSendFails ==
    /\ turn = "main"
    /\ tpc["main"] = "constructed"
    /\ process' = "exited"
    /\ stdout' = [stdout EXCEPT !.eof = TRUE]
    /\ stderr' = [stderr EXCEPT !.eof = TRUE]
    /\ running' = TRUE
    /\ ready' = ready \o <<"stdout", "stderr">>
    /\ SendFails
    /\ broadcasts' = Append(broadcasts, ErrorBroadcast("Failed to start worker"))
    /\ tpc' = [main |-> "initialize_failed", stdout |-> "scheduled",
               stderr |-> "scheduled"]
    /\ UNCHANGED <<pending_requests, tools_used, turn, timer, call, wrote,
                   consumed, metrics, stop, signals, other, outsideSup>>

\* The main task is done with the supervisor for now: it returns or awaits
\* something else, and the event loop has the thread.
MainYields ==
    /\ turn = "main"
    /\ tpc["main"] # "constructed"
    /\ turn' = "loop"
    /\ tpc' = [tpc EXCEPT !["main"] = "away"]
    /\ UNCHANGED <<process, running, message_id_counter, pending_requests, stdin,
                   stdout, stderr, broadcasts, tools_used, ready, timer, call,
                   wrote, consumed, metrics, stop, signals, other, outsideSup>>

\* list_tools(timeout) when the write to the worker's stdin raises, or when
\* there is no process: the slot is stored, _send_message raises outside the
\* `try`, and list_tools raises with it
ListToolsSendFails ==
    /\ turn = "main"
    /\ tpc["main"] \in {"started", "initialize_failed", "spawn_failed"}
    /\ process # "alive"
    /\ call = NoneRec
    /\ LET request_id == ListToolsRequestId(message_id_counter)
       IN  /\ pending_requests' = Put(pending_requests, request_id, "pending")
           /\ call' = [request_id |-> request_id,
                       sent_id |-> MessageId(message_id_counter + 1)]
    /\ IF process = None THEN UNCHANGED <<message_id_counter, stdin>> ELSE SendFails
    /\ tpc' = [tpc EXCEPT !["main"] = "send_raised"]
    /\ UNCHANGED <<process, running, stdout, stderr, broadcasts, tools_used, turn,
                   ready, timer, wrote, consumed, metrics, stop, signals,
                   other, outsideSup>>

\* list_tools(timeout) up to `await asyncio.wait_for(response_future, timeout)`
ListTools ==
    /\ turn = "main"
    /\ tpc["main"] = "started"
    /\ process = "alive"
    /\ LET request_id == ListToolsRequestId(message_id_counter)
       IN  /\ pending_requests' = Put(pending_requests, request_id, "pending")
           /\ SendMessage("list_tools", request_id)
           /\ call' = [request_id |-> request_id, sent_id |-> MessageId(message_id_counter + 1)]
    /\ timer' = "armed"
    /\ tpc' = [tpc EXCEPT !["main"] = "waiting"]
    /\ turn' = "loop"
    /\ UNCHANGED <<process, running, stdout, stderr, broadcasts, tools_used, ready,
                   wrote, consumed, metrics, stop, signals, other, outsideSup>>

\* The timeout of wait_for runs out.
TimerExpires ==
    /\ timer = "armed"
    /\ timer' = "expired"
    /\ UNCHANGED <<process, running, message_id_counter, pending_requests, stdin,
                   stdout, stderr, broadcasts, tools_used, turn, ready, tpc, call,
                   wrote, consumed, metrics, stop, signals, other, outsideSup>>

\* The event loop has the thread and gives it to the task at the head of its
\* queue.
LoopRunsNext ==
    /\ turn = "loop"
    /\ ready # <<>>
    /\ turn' = Head(ready)
    /\ ready' = Tail(ready)
    /\ UNCHANGED <<process, running, message_id_counter, pending_requests, stdin,
                   stdout, stderr, broadcasts, tools_used, tpc, timer, call,
                   wrote, consumed, metrics, stop, signals, other, outsideSup>>

\* list_tools: the event loop has the thread, nothing is ready and the timeout
\* is due; wait_for cancels the future and raises, list_tools raises
\* TimeoutError and its `finally` pops the slot
ListToolsTimesOut ==
    /\ turn = "loop"
    /\ ready = <<>>
    /\ timer = "expired"
    /\ tpc["main"] = "waiting"
    /\ pending_requests' = Pop(pending_requests, call.request_id)
    /\ timer' = "none"
    /\ tpc' = [tpc EXCEPT !["main"] = "timeout"]
    /\ turn' = "main"
    /\ UNCHANGED <<process, running, message_id_counter, stdin, stdout, stderr,
                   broadcasts, tools_used, ready, call, wrote, consumed, metrics, stop, signals, other, outsideSup>>

\* list_tools: the future has a result and the main task is run again; the
\* tools are returned and the `finally` pops the slot
ListToolsReturns ==
    /\ turn = "main"
    /\ tpc["main"] = "waiting"
    /\ pending_requests' = Pop(pending_requests, call.request_id)
    /\ timer' = "none"
    /\ tpc' = [tpc EXCEPT !["main"] = "returned"]
    /\ UNCHANGED <<process, running, message_id_counter, stdin, stdout, stderr,
                   broadcasts, tools_used, turn, ready, call, wrote, consumed,
                   metrics, stop, signals, other, outsideSup>>

\* asyncio.create_task(...) by the main task: a second task that will call
\* list_tools is put on the event loop's queue
OtherCreated ==
    /\ turn = "main"
    /\ tpc["main"] \in {"constructed", "started"}
    /\ other.pc = "idle"
    /\ other' = [other EXCEPT !.pc = "scheduled"]
    /\ ready' = Append(ready, "other")
    /\ UNCHANGED <<process, running, message_id_counter, pending_requests, stdin,
                   stdout, stderr, broadcasts, tools_used, turn, tpc, timer, call,
                   wrote, consumed, metrics, stop, signals, outsideSup>>

\* list_tools(timeout) of the second task up to `await asyncio.wait_for(...)`
OtherListTools ==
    /\ turn = "other"
    /\ other.pc = "scheduled"
    /\ process = "alive"
    /\ LET request_id == ListToolsRequestId(message_id_counter)
       IN  /\ pending_requests' = Put(pending_requests, request_id, "pending")
           /\ SendMessage("list_tools", request_id)
           /\ other' = [pc |-> "waiting", request_id |-> request_id,
                        timer |-> "armed"]
    /\ turn' = "loop"
    /\ UNCHANGED <<process, running, stdout, stderr, broadcasts, tools_used, ready,
                   tpc, timer, call, wrote, consumed, metrics, stop, signals,
                   outsideSup>>

\* list_tools(timeout) of the second task when there is no process or the
\* write raises: the slot is stored and the task ends with the exception
OtherListToolsSendFails ==
    /\ turn = "other"
    /\ other.pc = "scheduled"
    /\ process # "alive"
    /\ LET request_id == ListToolsRequestId(message_id_counter)
       IN  /\ pending_requests' = Put(pending_requests, request_id, "pending")
           /\ other' = [pc |-> "send_raised", request_id |-> request_id,
                        timer |-> "none"]
    /\ IF process = None THEN UNCHANGED <<message_id_counter, stdin>> ELSE SendFails
    /\ turn' = "loop"
    /\ UNCHANGED <<process, running, stdout, stderr, broadcasts, tools_used, ready,
                   tpc, timer, call, wrote, consumed, metrics, stop, signals,
                   outsideSup>>

\* The timeout of the second task's wait_for runs out.
OtherTimerExpires ==
    /\ other.timer = "armed"
    /\ other' = [other EXCEPT !.timer = "expired"]
    /\ UNCHANGED <<process, running, message_id_counter, pending_requests, stdin,
                   stdout, stderr, broadcasts, tools_used, turn, ready, tpc, timer,
                   call, wrote, consumed, metrics, stop, signals, outsideSup>>

\* list_tools of the second task: the loop is idle and the timeout is due;
\* TimeoutError is raised, the `finally` pops the slot and the task ends
OtherListToolsTimesOut ==
    /\ turn = "loop"
    /\ ready = <<>>
    /\ other.pc = "waiting"
    /\ other.timer = "expired"
    /\ pending_requests' = Pop(pending_requests, other.request_id)
    /\ other' = [other EXCEPT !.pc = "timeout", !.timer = "none"]
    /\ UNCHANGED <<process, running, message_id_counter, stdin, stdout, stderr,
                   broadcasts, tools_used, turn, ready, tpc, timer, call, wrote,
                   consumed, metrics, stop, signals, outsideSup>>

\* list_tools of the second task: its future has a result and the task is run
\* again; the tools are returned, the `finally` pops the slot and the task ends
OtherListToolsReturns ==
    /\ turn = "other"
    /\ other.pc = "waiting"
    /\ pending_requests' = Pop(pending_requests, other.request_id)
    /\ other' = [other EXCEPT !.pc = "returned", !.timer = "none"]
    /\ turn' = "loop"
    /\ UNCHANGED <<process, running, message_id_counter, stdin, stdout, stderr,
                   broadcasts, tools_used, ready, tpc, timer, call, wrote,
                   consumed, metrics, stop, signals, outsideSup>>

\* The tasks that await the future stored under this key: the call that stored
\* it last
Waiters(request_id) ==
    IF other.pc = "waiting" /\ other.request_id = request_id THEN <<"other">>
    ELSE IF tpc["main"] = "waiting" /\ call.request_id = request_id THEN <<"main">>
    ELSE <<>>

\* payload.get('files_modified', []) of a message
FilesOf(message) == IF "files" \in DOMAIN message THEN message.files ELSE <<>>

\* A wrong TASK_COMPLETE branch: every reported file is appended.
ExtendFiles(modified, files) == modified \o files

\* `for file in files: if file not in files_modified: files_modified.append(file)`
RECURSIVE AddFiles(_, _)
AddFiles(modified, files) ==
    IF files = <<>> THEN modified
    ELSE AddFiles(IF Head(files) \in Range(modified) THEN modified
                  ELSE Append(modified, Head(files)),
                  Tail(files))

\* A wrong _handle_message: any message resolves every stored future.
HandleMessageAnyKey(message) ==
    /\ pending_requests' = [r \in DOMAIN pending_requests |-> "result"]
    /\ ready' = ready \o (IF tpc["main"] = "waiting" THEN <<"main">> ELSE <<>>)
    /\ UNCHANGED <<broadcasts, tools_used, metrics>>

\* _handle_message(message) on the broadcaster calls, the metrics, the pending
\* requests and the loop's queue
HandleMessage(message) ==
    CASE message.type = "tool_use" ->
            LET used == Put(tools_used, message.tool,
                            Get(tools_used, message.tool, 0) + 1)
            IN  /\ tools_used' = used
                /\ broadcasts' = OnActivity(broadcasts,
                                     Activity("tool_use", "", message.tool), used)
                /\ UNCHANGED <<pending_requests, ready, metrics>>
      [] message.type = "progress" ->
            /\ broadcasts' = OnActivity(broadcasts, Activity("progress", "", None),
                                        tools_used)
            /\ UNCHANGED <<tools_used, pending_requests, ready, metrics>>
      [] message.type = "task_complete" ->
            /\ metrics' = [metrics EXCEPT
                                !.tasks_completed = @ + 1,
                                !.files_modified = AddFiles(@, FilesOf(message))]
            /\ UNCHANGED <<broadcasts, tools_used, pending_requests, ready>>
      [] message.type = "task_error" ->
            /\ metrics' = [metrics EXCEPT !.tasks_failed = @ + 1]
            /\ broadcasts' = Append(broadcasts,
                                    ErrorBroadcast("Task None failed: Unknown error"))
            /\ UNCHANGED <<tools_used, pending_requests, ready>>
      [] message.type = "log" ->
            /\ broadcasts' = OnActivity(broadcasts, Activity("log", "", None),
                                        tools_used)
            /\ UNCHANGED <<tools_used, pending_requests, ready, metrics>>
      [] message.type = "tools_response" ->
            IF /\ message.request_id \in DOMAIN pending_requests
               /\ pending_requests[message.request_id] = "pending"
            THEN /\ pending_requests' =
                        Put(pending_requests, message.request_id, "result")
                 /\ ready' = ready \o Waiters(message.request_id)
                 /\ UNCHANGED <<broadcasts, tools_used, metrics>>
            ELSE UNCHANGED <<broadcasts, tools_used, pending_requests, ready, metrics>>
      [] OTHER -> UNCHANGED <<broadcasts, tools_used, pending_requests, ready, metrics>>

\* _read_stdout: readline() returns a line; one turn of the `while` loop
ReadStdoutLine ==
    /\ turn = "stdout"
    /\ running
    /\ stdout.lines # <<>>
    /\ LET line    == Head(stdout.lines)
           message == from_json(line)
       IN  /\ stdout' = [stdout EXCEPT !.lines = Tail(@)]
           /\ CASE message.raises = None ->
                    /\ HandleMessage(line)
                    /\ consumed' = Append(consumed, [line |-> line, came |-> "handled"])
                    /\ UNCHANGED <<tpc, turn>>
                [] message.raises = "JSONDecodeError" ->
                    /\ broadcasts' = OnActivity(broadcasts,
                                        Activity("log", Strip(line.raw), None),
                                        tools_used)
                    /\ consumed' = Append(consumed, [line |-> line, came |-> "logged"])
                    /\ UNCHANGED <<tools_used, pending_requests, ready, metrics, tpc, turn>>
                [] OTHER ->
                    /\ consumed' = Append(consumed, [line |-> line, came |-> "break"])
                    /\ tpc' = [tpc EXCEPT !["stdout"] = "broke"]
                    /\ turn' = "loop"
                    /\ UNCHANGED <<broadcasts, tools_used, pending_requests, ready,
                                   metrics>>
    /\ UNCHANGED <<process, running, message_id_counter, stdin, stderr, timer, call,
                   wrote, stop, signals, other, outsideSup>>

\* _read_stdout: readline() returns '' at the end of the stream; `break`
ReadStdoutEnd ==
    /\ turn = "stdout"
    /\ running
    /\ stdout.lines = <<>>
    /\ stdout.eof
    /\ tpc' = [tpc EXCEPT !["stdout"] = "ended"]
    /\ turn' = "loop"
    /\ UNCHANGED <<process, running, message_id_counter, pending_requests, stdin,
                   stdout, stderr, broadcasts, tools_used, ready, timer, call,
                   wrote, consumed, metrics, stop, signals, other, outsideSup>>

\* _read_stderr: readline() returns a line; it is broadcast as an error
ReadStderrLine ==
    /\ turn = "stderr"
    /\ running
    /\ stderr.lines # <<>>
    /\ stderr' = [stderr EXCEPT !.lines = Tail(@)]
    /\ broadcasts' = Append(broadcasts, ErrorBroadcast(Strip(Head(stderr.lines))))
    /\ UNCHANGED <<process, running, message_id_counter, pending_requests, stdin,
                   stdout, tools_used, turn, ready, tpc, timer, call, wrote,
                   consumed, metrics, stop, signals, other, outsideSup>>

\* _read_stderr: readline() returns '' at the end of the stream; `break`
ReadStderrEnd ==
    /\ turn = "stderr"
    /\ running
    /\ stderr.lines = <<>>
    /\ stderr.eof
    /\ tpc' = [tpc EXCEPT !["stderr"] = "ended"]
    /\ turn' = "loop"
    /\ UNCHANGED <<process, running, message_id_counter, pending_requests, stdin,
                   stdout, stderr, broadcasts, tools_used, ready, timer, call,
                   wrote, consumed, metrics, stop, signals, other, outsideSup>>

\* _read_stdout: `while self.running` finds the flag off
ReadStdoutStopped ==
    /\ turn = "stdout"
    /\ ~running
    /\ tpc' = [tpc EXCEPT !["stdout"] = "ended"]
    /\ turn' = "loop"
    /\ UNCHANGED <<process, running, message_id_counter, pending_requests, stdin,
                   stdout, stderr, broadcasts, tools_used, ready, timer, call,
                   wrote, consumed, metrics, stop, signals, other, outsideSup>>

\* _read_stderr: `while self.running` finds the flag off
ReadStderrStopped ==
    /\ turn = "stderr"
    /\ ~running
    /\ tpc' = [tpc EXCEPT !["stderr"] = "ended"]
    /\ turn' = "loop"
    /\ UNCHANGED <<process, running, message_id_counter, pending_requests, stdin,
                   stdout, stderr, broadcasts, tools_used, ready, timer, call,
                   wrote, consumed, metrics, stop, signals, other, outsideSup>>

\* A wrong stop(): the process is used whether it is there or not.
AnyProcess(p) == TRUE

\* stop(): `if self.process:`
HasProcess(p) == p # None

\* A wrong end of stop(): terminate is sent and nothing follows it.
TerminateOnly ==
    \E obeys \in BOOLEAN :
        /\ signals' = IF process = "alive" THEN Append(signals, "terminate")
                      ELSE signals
        /\ process' = IF process = "alive" /\ ~obeys THEN "alive" ELSE "exited"
        /\ stdout' = [stdout EXCEPT !.eof = (process' = "exited")]
        /\ stderr' = [stderr EXCEPT !.eof = (process' = "exited")]

\* stop(): process.terminate(), process.wait(timeout=5) and, when the wait
\* times out, process.kill(). Popen.terminate() polls first and signals only a
\* process that has not exited. A live worker obeys the terminate signal or
\* not.
TerminateAndWait ==
    \E obeys \in BOOLEAN :
        /\ signals' = IF process # "alive" THEN signals
                      ELSE IF obeys THEN Append(signals, "terminate")
                      ELSE signals \o <<"terminate", "kill">>
        /\ process' = "exited"
        /\ stdout' = [stdout EXCEPT !.eof = TRUE]
        /\ stderr' = [stderr EXCEPT !.eof = TRUE]

\* The tasks that can call stop(): the main task when it has the thread, any
\* other task when the event loop has it.
StopCallers == {"main", "other"}

\* stop() up to its first await, or to its end when it does not await: the
\* flag is cleared; with a process, shutdown is sent and stop() sleeps, or the
\* send raises, which is passed over, and the process is terminated
StopBegins(by) ==
    /\ stop.pc = "idle"
    /\ ~stop.raised
    /\ stop.returned < MaxStops
    /\ turn = (IF by = "main" THEN "main" ELSE "loop")
    /\ running' = FALSE
    /\ IF ~HasProcess(process)
       THEN /\ stop' = [stop EXCEPT !.returned = @ + 1]
            /\ UNCHANGED <<process, stdout, stderr, signals, message_id_counter,
                           stdin, turn>>
       ELSE IF process = None
       THEN /\ stop' = [stop EXCEPT !.raised = TRUE]
            /\ UNCHANGED <<process, stdout, stderr, signals, message_id_counter,
                           stdin, turn>>
       ELSE IF process = "alive"
       THEN /\ SendMessage("shutdown", NoId)
            /\ stop' = [stop EXCEPT !.pc = "sleeping", !.by = by]
            /\ turn' = "loop"
            /\ UNCHANGED <<process, stdout, stderr, signals>>
       ELSE /\ SendFails
            /\ TerminateAndWait
            /\ stop' = [stop EXCEPT !.returned = @ + 1]
            /\ UNCHANGED turn
    /\ UNCHANGED <<pending_requests, broadcasts, tools_used, ready, tpc, timer,
                   call, wrote, consumed, metrics, other, outsideSup>>

\* stop() after `await asyncio.sleep(0.5)`: the process is terminated and
\* stop() returns
StopResumes ==
    /\ turn = "loop"
    /\ ready = <<>>
    /\ stop.pc = "sleeping"
    /\ TerminateAndWait
    /\ stop' = [stop EXCEPT !.pc = "idle", !.by = None, !.returned = @ + 1]
    /\ turn' = (IF stop.by = "main" THEN "main" ELSE "loop")
    /\ UNCHANGED <<running, message_id_counter, pending_requests, stdin,
                   broadcasts, tools_used, ready, tpc, timer, call, wrote,
                   consumed, metrics, other, outsideSup>>

\* The lines written to stderr so far: those in the pipe and those broadcast
ErrLinesWritten ==
    Len(stderr.lines) + Cardinality({i \in 1..Len(broadcasts) :
                                        broadcasts[i].text = "Traceback"})

\* The lines the worker has written so far, on both streams; the tool uses a
\* busy supervisor starts with are not counted
LinesWritten ==
    Len(SelectSeq(wrote, LAMBDA l : l.tool \notin Range(ToolNames))) + ErrLinesWritten

\* The worker writes a line to its stdout.
WorkerWrites(line) ==
    /\ process = "alive"
    /\ LinesWritten < MaxLines
    /\ stdout' = [stdout EXCEPT !.lines = Append(@, line)]
    /\ wrote' = Append(wrote, line)
    /\ UNCHANGED <<process, running, message_id_counter, pending_requests, stdin,
                   stderr, broadcasts, tools_used, turn, ready, tpc, timer, call,
                   consumed, metrics, stop, signals, other, outsideSup>>

\* The worker writes a line to its stderr.
WorkerWritesErr ==
    /\ process = "alive"
    /\ LinesWritten < MaxLines
    /\ stderr' = [stderr EXCEPT !.lines = Append(@, "Traceback\n")]
    /\ UNCHANGED <<process, running, message_id_counter, pending_requests, stdin,
                   stdout, broadcasts, tools_used, turn, ready, tpc, timer, call,
                   wrote, consumed, metrics, stop, signals, other, outsideSup>>

\* The worker exits: both its streams are at their end once read empty.
WorkerExits ==
    /\ process = "alive"
    /\ process' = "exited"
    /\ stdout' = [stdout EXCEPT !.eof = TRUE]
    /\ stderr' = [stderr EXCEPT !.eof = TRUE]
    /\ UNCHANGED <<running, message_id_counter, pending_requests, stdin,
                   broadcasts, tools_used, turn, ready, tpc, timer, call, wrote,
                   consumed, metrics, stop, signals, other, outsideSup>>

\* The steps the supervisor and the event loop take by themselves
SupervisorSteps ==
    \/ StartFails
    \/ Start
    \/ StartSendFails
    \/ MainYields
    \/ ListTools
    \/ ListToolsSendFails
    \/ TimerExpires
    \/ LoopRunsNext
    \/ ListToolsTimesOut
    \/ ListToolsReturns
    \/ ReadStdoutLine
    \/ ReadStdoutEnd
    \/ ReadStderrLine
    \/ ReadStderrEnd
    \/ ReadStdoutStopped
    \/ ReadStderrStopped
    \/ \E by \in StopCallers : StopBegins(by)
    \/ StopResumes

\* The steps of the worker process
WorkerSteps ==
    \/ \E line \in WorkerLines : WorkerWrites(line)
    \/ WorkerWritesErr
    \/ WorkerExits

NextSup == SupervisorSteps \/ WorkerSteps

InitSup ==
    SupConstructed /\ EngineIdle /\ HubConstructed /\ ExecIdle /\ OthersIdle

SpecSup == InitSup /\ [][NextSup]_vars

\* The steps of a second task that calls list_tools on the same supervisor
OtherSteps ==
    \/ OtherCreated
    \/ OtherListTools
    \/ OtherListToolsSendFails
    \/ OtherTimerExpires
    \/ OtherListToolsTimesOut
    \/ OtherListToolsReturns

\* The supervisor with two callers of list_tools, its read loops and its
\* worker; nobody calls stop()
NextCalls ==
    \/ StartFails
    \/ Start
    \/ StartSendFails
    \/ MainYields
    \/ ListTools
    \/ ListToolsSendFails
    \/ TimerExpires
    \/ LoopRunsNext
    \/ ListToolsTimesOut
    \/ ListToolsReturns
    \/ ReadStdoutLine
    \/ ReadStdoutEnd
    \/ ReadStderrLine
    \/ ReadStderrEnd
    \/ OtherSteps
    \/ WorkerSteps

SpecCalls == InitSup /\ [][NextCalls]_vars

\* self.metrics.tools_used after these lines
ToolsUsedAfter(k) == [t \in {ToolNames[i] : i \in 1..k} |-> 1]

\* The broadcaster calls _handle_message has made for these lines
RECURSIVE BroadcastsAfter(_)
BroadcastsAfter(k) ==
    IF k = 0 THEN <<>>
    ELSE OnActivity(BroadcastsAfter(k - 1),
                    Activity("tool_use", "", ToolNames[k]), ToolsUsedAfter(k))

\* A started supervisor whose read loop has handled the tool_use messages of k
\* different tools: the caller of start() awaits something else, the stdout
\* task has the thread, the stderr task has not run yet.
InitBusy ==
    /\ EngineIdle /\ HubConstructed /\ ExecIdle /\ OthersIdle
    /\ \E k \in 0..Len(ToolNames) :
          /\ tools_used = ToolsUsedAfter(k)
          /\ broadcasts = BroadcastsAfter(k)
          /\ wrote = ToolUseLines(k)
          /\ consumed = [i \in 1..k |-> [line |-> ToolUseLines(k)[i],
                                         came |-> "handled"]]
    /\ process = "alive"
    /\ running = TRUE
    /\ message_id_counter = 1
    /\ pending_requests = <<>>
    /\ stdin = <<[type |-> "initialize", id |-> MessageId(1), request_id |-> NoId]>>
    /\ stdout = [lines |-> <<>>, eof |-> FALSE]
    /\ stderr = [lines |-> <<>>, eof |-> FALSE]
    /\ turn = "stdout"
    /\ ready = <<"stderr">>
    /\ tpc = [main |-> "away", stdout |-> "scheduled", stderr |-> "scheduled"]
    /\ timer = "none"
    /\ call = NoneRec
    /\ metrics = [tasks_completed |-> 0, tasks_failed |-> 0, files_modified |-> <<>>]
    /\ stop = [pc |-> "idle", by |-> None, returned |-> 0, raised |-> FALSE]
    /\ signals = <<>>
    /\ other = OtherIdle

\* The read loops of a busy supervisor and its worker
NextBusy ==
    \/ LoopRunsNext
    \/ ReadStdoutLine
    \/ ReadStdoutEnd
    \/ ReadStderrLine
    \/ ReadStderrEnd
    \/ WorkerSteps

SpecBusy == InitBusy /\ [][NextBusy]_vars

\* The files_modified lists of task_complete messages
FileLists ==
    {<<>>, <<"a.py">>, <<"a.py", "a.py">>, <<"a.py", "b.py">>, <<"b.py", "a.py">>}

\* The messages of a worker that reports its work
ReportLines ==
    { MessageLine("tool_use", NoId, t) : t \in {"edit", "read"} }
    \cup { MessageLine("task_complete", NoId, None) @@ [files |-> fs] :
             fs \in FileLists }
    \cup { MessageLine("task_error", NoId, None), MessageLine("log", NoId, None) }

\* The worker writes a report message to its stdout.
WorkerReportsLine(line) ==
    /\ process = "alive"
    /\ Len(wrote) < MaxReports
    /\ stdout' = [stdout EXCEPT !.lines = Append(@, line)]
    /\ wrote' = Append(wrote, line)
    /\ UNCHANGED <<process, running, message_id_counter, pending_requests, stdin,
                   stderr, broadcasts, tools_used, turn, ready, tpc, timer, call,
                   consumed, metrics, stop, signals, other, outsideSup>>

\* A started supervisor that has read nothing yet
InitReports == InitBusy /\ wrote = <<>>

\* The read loops of a supervisor whose worker reports its work
NextReports ==
    \/ LoopRunsNext
    \/ ReadStdoutLine
    \/ ReadStdoutEnd
    \/ ReadStderrEnd
    \/ \E line \in ReportLines : WorkerReportsLine(line)
    \/ WorkerExits

SpecReports == InitReports /\ [][NextReports]_vars

\* The supervisor's own steps are taken when they can be; the worker owes
\* nothing.
FairSpecSup == SpecSup /\ WF_vars(SupervisorSteps)

(***************************************************************************)
(* Properties of the supervisor                                            *)
(***************************************************************************)
\* A tools_response has been written by the worker.
Responded == \E i \in 1..Len(wrote) : wrote[i].type = "tools_response"

\* C4: a list_tools call that waits for a worker that sends no tools_response
\* eventually fails with the timeout error, and once it has failed its request
\* id is not in the pending-request map.
C4_ListToolsTimesOut ==
    /\ [](tpc["main"] = "waiting" => <>(tpc["main"] = "timeout" \/ Responded))
    /\ [](tpc["main"] = "timeout" => call.request_id \notin DOMAIN pending_requests)

\* The lines read from stdout that do not decode to a message
Undecodable(lines) == SelectSeq(lines, LAMBDA e : from_json(e.line).raises # None)

\* The 'log' activities that carry the text of such a line
RawLogs ==
    SelectSeq(broadcasts,
              LAMBDA b : /\ b.call = "broadcast_activity"
                         /\ b.kind = "log"
                         /\ b.text \in {Strip(l.raw) : l \in ChatterLines})

\* C5: the stdout read loop is not ended by a line that does not decode to a
\* message: every such line read so far was emitted as one 'log' activity
\* carrying its text, in the order read.
C5_UndecodableLinesLogged ==
    /\ tpc["stdout"] # "broke"
    /\ LET lines == Undecodable(consumed)
       IN  RawLogs = [i \in 1..Len(lines) |-> Activity("log", Strip(lines[i].line.raw), None)]

\* The worker_error broadcasts made so far
ErrorBroadcasts == SelectSeq(broadcasts, LAMBDA b : b.call = "broadcast_error")

\* C14: stop() is safe in every lifecycle state: before start(), after a
\* failed start() and after a completed stop() it raises nothing, and whenever
\* it returns the supervisor is not running.
C14_StopIdempotent ==
    [][/\ ~stop.raised'
       /\ stop.returned' > stop.returned => ~running']_vars

\* C14 witness: stop() has returned twice on a supervisor whose start() failed
\* to spawn the process.
C14_Witness ==
    /\ stop.returned = 2
    /\ tpc["main"] = "spawn_failed"
    /\ process = None

\* C15: when stop() returns while a list_tools call is waiting for its
\* response, the waiting call has been completed with a cancellation error
\* and its entry is gone from the pending-request map.
C15_StopCancelsPendingListTools ==
    [][(stop.returned' > stop.returned /\ tpc["main"] = "waiting")
          => /\ tpc'["main"] = "cancelled"
             /\ DOMAIN pending_requests' = {}]_vars

\* The stdout loop has something to read: a line or the end of the stream
StdoutReadable == stdout.lines # <<>> \/ stdout.eof

\* C17: the read loops and the timeout do not block one another: a line the
\* worker has written on stderr is eventually broadcast as an error, and a
\* list_tools timeout that is due eventually fires, unless the worker writes on
\* stdout (or ends it) or the supervisor is stopped in the meantime.
C17_ReadLoopsDoNotBlock ==
    /\ [](stderr.lines # <<>> =>
            <>(stderr.lines = <<>> \/ StdoutReadable \/ ~running))
    /\ []((timer = "expired" /\ tpc["main"] = "waiting") =>
            <>(tpc["main"] # "waiting" \/ StdoutReadable \/ ~running))

\* The list_tools messages sent to the worker so far
ListToolsSent == SelectSeq(stdin, LAMBDA m : m.type = "list_tools")

\* C18: the request id under which a list_tools call has its pending slot is
\* the id field of the list_tools message that the call sent to the worker.
C18_RequestIdIsMessageId ==
    \A request_id \in DOMAIN pending_requests :
        \E i \in 1..Len(ListToolsSent) : ListToolsSent[i].id = request_id

\* The message types for which an activity event is to be emitted
ActivityTypes ==
    {"tool_use", "progress", "log", "task_started", "task_complete", "task_error"}

\* The messages of one type handled so far
Handled(type) ==
    SelectSeq(consumed, LAMBDA e : e.came = "handled" /\ e.line.type = type)

\* The activity events of one type handed to the broadcaster for messages
ActivitiesOf(type) ==
    SelectSeq(broadcasts, LAMBDA b : /\ b.call = "broadcast_activity"
                                     /\ b.kind = type
                                     /\ b.text = "")

\* C19: for every message of type tool_use, progress, log, task_started,
\* task_complete or task_error handled so far, exactly one activity event for
\* it was handed to the broadcaster.
C19_OneActivityPerMessage ==
    \A type \in ActivityTypes : Len(ActivitiesOf(type)) = Len(Handled(type))

\* A shutdown message has been sent to the worker.
ShutdownSent == \E i \in 1..Len(stdin) : stdin[i].type = "shutdown"

Activities == SelectSeq(broadcasts, LAMBDA b : b.call = "broadcast_activity")

\* The lines read from stdout for which an activity event is emitted, in the
\* order read
ActivityLines ==
    SelectSeq(consumed,
              LAMBDA e : \/ e.came = "logged"
                         \/ e.came = "handled"
                              /\ e.line.type \in {"tool_use", "progress", "log"})

\* The activity event of a line
ActivityOfLine(e) ==
    IF e.came = "logged" THEN Activity("log", Strip(e.line.raw), None)
    ELSE IF e.line.type = "tool_use" THEN Activity("tool_use", "", e.line.tool)
    ELSE Activity(e.line.type, "", None)

\* C22: the activity events broadcast for the worker's stdout are in the order
\* in which the worker wrote the lines: the lines are read in the order
\* written, and the events are those of the lines read, in that order.
C22_ActivitiesInWrittenOrder ==
    /\ Len(consumed) <= Len(wrote)
    /\ \A i \in 1..Len(consumed) : consumed[i].line = wrote[i]
    /\ Activities = [i \in 1..Len(ActivityLines) |-> ActivityOfLine(ActivityLines[i])]

\* C22 witness: two lines with different events were written and both events
\* were broadcast.
C22_Witness ==
    /\ Len(Activities) = 2
    /\ Activities[1] # Activities[2]
    /\ Len(consumed) = 2

\* The tool_use activities among the first p broadcaster calls
ToolUsesUpTo(p) ==
    Cardinality({i \in 1..p : /\ broadcasts[i].call = "broadcast_activity"
                              /\ broadcasts[i].kind = "tool_use"})

\* The worker_metrics broadcasts among the first p broadcaster calls
SnapshotsUpTo(p) ==
    Cardinality({i \in 1..p : broadcasts[i].call = "broadcast_metrics"})

\* C27: a worker_metrics broadcast happens only when the number of tool
\* invocations has advanced by N = 10 since the snapshot before it: the n-th
\* snapshot follows at least n * N tool invocations, and the message that
\* triggered it is a tool invocation.
C27_MetricsEveryNToolUses ==
    \A p \in 1..Len(broadcasts) :
        broadcasts[p].call = "broadcast_metrics" =>
            /\ ToolUsesUpTo(p) >= MetricsEvery * SnapshotsUpTo(p)
            /\ p > 1
            /\ broadcasts[p - 1].call = "broadcast_activity"
            /\ broadcasts[p - 1].kind = "tool_use"

\* C20: when the subprocess cannot be spawned, start() has broadcast one
\* worker_error and raised, and the supervisor is not running and has no
\* process.
C20_SpawnFailureReported ==
    tpc["main"] = "spawn_failed" =>
        /\ Len(ErrorBroadcasts) = 1
        /\ ~running
        /\ process = None

\* C20 witness: start() has raised because the spawn failed.
C20_Witness ==
    /\ tpc["main"] = "spawn_failed"
    /\ broadcasts = <<ErrorBroadcast("Failed to start worker")>>

(***************************************************************************)
(* The execution phase: run_execution_phase over WorkerPoolManager and     *)
(* MCPServerStdio.execute_task                                             *)
(***************************************************************************)
\* The plans handed to the execution phase: tasks 1..n in waves, in order.
RECURSIVE WaveSplits(_, _)
WaveSplits(first, last) ==
    IF first > last THEN {<<>>}
    ELSE UNION { { <<[k \in 1..(cut - first + 1) |-> first + k - 1]>> \o rest :
                   rest \in WaveSplits(cut + 1, last) } : cut \in first..last }

ExecPlans == UNION { WaveSplits(1, n) : n \in 1..MaxTasks }

TasksOf(split) == UNION { Range(split[w]) : w \in 1..Len(split) }

WaveOf(task) == CHOOSE w \in 1..Len(exec_waves) : task \in Range(exec_waves[w])

\* The execute_task calls of wave w that have not returned
Outstanding(w) == {t \in Range(exec_waves[w]) : exec_task[t] # "returned"}

\* run_execution_phase: the next wave is begun once every dispatch of the wave
\* before it has returned
ExecutionNextWave ==
    /\ exec_wave < Len(exec_waves)
    /\ exec_wave > 0 => Outstanding(exec_wave) = {}
    /\ exec_wave' = exec_wave + 1
    /\ UNCHANGED <<exec_waves, exec_worker, exec_task, exec_sent, exec_reported,
                   outsideExec>>

\* dispatch_task(worker_id, task) -> execute_task(task) up to its
\* `await asyncio.sleep(5)`: the execute_task message is sent
ExecuteTaskSends(task) ==
    /\ exec_wave > 0
    /\ task \in Range(exec_waves[exec_wave])
    /\ exec_task[task] = "planned"
    /\ exec_worker[task] \in PoolWorkers
    /\ exec_sent' = [exec_sent EXCEPT ![exec_worker[task]] = Append(@, task)]
    /\ exec_task' = [exec_task EXCEPT ![task] = "sleeping"]
    /\ UNCHANGED <<exec_waves, exec_wave, exec_worker, exec_reported, outsideExec>>

\* execute_task(task): the sleep is over; {'success': True, ...} is returned
ExecuteTaskReturns(task) ==
    /\ task \in DOMAIN exec_task
    /\ exec_task[task] = "sleeping"
    /\ exec_task' = [exec_task EXCEPT ![task] = "returned"]
    /\ UNCHANGED <<exec_waves, exec_wave, exec_worker, exec_sent, exec_reported,
                   outsideExec>>

\* The worker writes task_complete or task_error for a task it was sent.
WorkerReports(task, report) ==
    /\ task \in DOMAIN exec_task
    /\ \E i \in 1..Len(exec_sent[exec_worker[task]]) :
            exec_sent[exec_worker[task]][i] = task
    /\ exec_reported[task] = None
    /\ exec_reported' = [exec_reported EXCEPT ![task] = report]
    /\ UNCHANGED <<exec_waves, exec_wave, exec_worker, exec_task, exec_sent,
                   outsideExec>>

NextExec ==
    \/ ExecutionNextWave
    \/ \E task \in 1..MaxTasks : ExecuteTaskSends(task)
    \/ \E task \in 1..MaxTasks : ExecuteTaskReturns(task)
    \/ \E task \in 1..MaxTasks, report \in {"task_complete", "task_error"} :
            WorkerReports(task, report)

InitExec ==
    /\ EngineIdle
    /\ HubConstructed
    /\ SupConstructed
    /\ OthersIdle
    /\ exec_waves \in ExecPlans
    /\ exec_wave = 0
    /\ exec_worker \in [TasksOf(exec_waves) -> PoolWorkers]
    /\ exec_task = [t \in TasksOf(exec_waves) |-> "planned"]
    /\ exec_sent = [w \in PoolWorkers |-> <<>>]
    /\ exec_reported = [t \in TasksOf(exec_waves) |-> None]

SpecExec == InitExec /\ [][NextExec]_vars

(***************************************************************************)
(* Properties of the execution phase                                       *)
(***************************************************************************)
\* C3: wave barrier: no objective of a wave is dispatched to a worker before
\* every objective of the wave before it has reported task_complete or
\* task_error.
C3_WaveBarrier ==
    [][\A t \in DOMAIN exec_task :
          (exec_task[t] = "planned" /\ exec_task'[t] # "planned" /\ WaveOf(t) > 1)
              => \A p \in Range(exec_waves[WaveOf(t) - 1]) : exec_reported[p] # None]_vars

\* What execute_task(task) returns
ExecuteTaskResult(task) == [success |-> TRUE, task_id |-> task]

\* C23: execute_task(task) returns only once the worker's task_complete or
\* task_error for the task has been observed, and its result reports success
\* exactly when task_complete was observed.
C23_ExecuteTaskAwaitsReport ==
    \A t \in DOMAIN exec_task :
        exec_task[t] = "returned" =>
            /\ exec_reported[t] # None
            /\ ExecuteTaskResult(t).success <=> exec_reported[t] = "task_complete"

(***************************************************************************)
(* Two callers of list_tools on one supervisor                             *)
(***************************************************************************)
\* The list_tools calls that wait for their response, as <<task, request id>>
PendingCalls ==
    (IF tpc["main"] = "waiting" THEN {<<"main", call.request_id>>} ELSE {})
    \cup (IF other.pc = "waiting" THEN {<<"other", other.request_id>>} ELSE {})

\* This step stores a slot under this key: list_tools line 518
StoresSlot(request_id) ==
    \/ call' # call /\ call'.request_id = request_id
    \/ /\ other.pc = "scheduled" /\ other'.pc # "scheduled"
       /\ other'.request_id = request_id

\* C29: every list_tools call uses a fresh correlation id: two calls that
\* wait at the same time have different request ids, the slot of a waiting
\* call stays in the map under its id, and no call stores its slot under the
\* id of a call that still waits.
C29_FreshRequestIds ==
    /\ [](\A p, q \in PendingCalls : p[2] = q[2] => p[1] = q[1])
    /\ [](\A p \in PendingCalls : p[2] \in DOMAIN pending_requests)
    /\ [][\A p \in PendingCalls : ~StoresSlot(p[2])]_vars

C29_Witness ==
    /\ Cardinality(PendingCalls) = 2
    /\ {call.request_id, other.request_id} \subseteq DOMAIN pending_requests
    /\ pending_requests[call.request_id] = "pending"
    /\ pending_requests[other.request_id] = "pending"

\* This step is _read_stdout handling a tools_response with this request id.
ResponseRead(request_id) ==
    /\ turn = "stdout"
    /\ running
    /\ stdout.lines # <<>>
    /\ from_json(Head(stdout.lines)).raises = None
    /\ Head(stdout.lines).type = "tools_response"
    /\ Head(stdout.lines).request_id = request_id
    /\ Len(consumed') = Len(consumed) + 1

\* The request ids a tools_response may carry
ResponseIds == EchoableIds \cup DOMAIN pending_requests

\* C28: under every interleaving of the list_tools calls with the read loop,
\* a stored future gets its result only in a step that handles a
\* tools_response whose request_id is its key, and keeps it until the slot is
\* removed; such a step changes no other slot; and a response whose
\* request_id is not in the map, or whose future is done already, changes
\* nothing: no slot, no task is woken, nothing is broadcast, and the read loop
\* goes on.
C28_ResolvedOnceByMatchingResponse ==
    /\ [][\A r \in DOMAIN pending_requests :
            /\ (/\ pending_requests[r] = "pending"
                /\ r \in DOMAIN pending_requests'
                /\ pending_requests'[r] = "result") => ResponseRead(r)
            /\ (pending_requests[r] = "result" /\ r \in DOMAIN pending_requests')
                    => pending_requests'[r] = "result"]_vars
    /\ [][\A id \in ResponseIds :
            ResponseRead(id) =>
                /\ \A r \in DOMAIN pending_requests \ {id} :
                        r \in DOMAIN pending_requests'
                        /\ pending_requests'[r] = pending_requests[r]
                /\ (id \notin DOMAIN pending_requests
                        \/ pending_requests[id] # "pending")
                    => /\ UNCHANGED <<pending_requests, ready, broadcasts,
                                      tools_used, metrics, tpc, turn, call, other>>
                       /\ consumed'[Len(consumed')].came = "handled"]_vars
    /\ [](\A i, j \in 1..Len(ready) : ready[i] = ready[j] => i = j)

\* Both calls wait, a response with an unknown request id has been handled and
\* so has the response to one of the calls: that call's future is done, the
\* other's is not.
C28_Witness ==
    /\ Cardinality(PendingCalls) = 2
    /\ \E i \in 1..Len(consumed) :
          /\ consumed[i].came = "handled"
          /\ consumed[i].line.type = "tools_response"
          /\ consumed[i].line.request_id \notin {call.request_id, other.request_id}
    /\ \E p, q \in PendingCalls :
          /\ p[2] \in DOMAIN pending_requests /\ pending_requests[p[2]] = "result"
          /\ q[2] \in DOMAIN pending_requests /\ pending_requests[q[2]] = "pending"
          /\ p[1] \in Range(ready)

(***************************************************************************)
(* The exit paths of start() and list_tools                                *)
(***************************************************************************)
\* start() has raised
StartRaised == tpc["main"] \in {"spawn_failed", "initialize_failed"}

\* C39: whenever start() raises, the supervisor is not left half-started: the
\* running flag is off and there is no live subprocess, also when only the
\* sending of the initialize message failed.
C39_StartRaisesClean == StartRaised => (~running /\ process # "alive")

\* list_tools of the main task has returned or raised
ListToolsLeft == tpc["main"] \in {"returned", "timeout", "send_raised"}

\* C40: on every exit path of list_tools (a response, a timeout, a failure to
\* send) the request id of the call is not in the pending-request map once
\* the call has returned or raised.
C40_NoSlotAfterListTools ==
    ListToolsLeft => call.request_id \notin DOMAIN pending_requests

(***************************************************************************)
(* The worker metrics                                                      *)
(***************************************************************************)
\* How many messages of this type _handle_message has handled
HandledCount(type) ==
    Cardinality({i \in 1..Len(consumed) :
                    consumed[i].came = "handled" /\ consumed[i].line.type = type})

RECURSIVE SumOf(_)
SumOf(counts) ==
    IF DOMAIN counts = {} THEN 0
    ELSE LET k == CHOOSE x \in DOMAIN counts : TRUE
         IN  counts[k] + SumOf([x \in DOMAIN counts \ {k} |-> counts[x]])

\* C33: after any sequence of handled messages, tasks_completed is the number
\* of task_complete messages handled, tasks_failed the number of task_error
\* messages handled, each of which made one worker_error broadcast, the
\* tools_used counts add up to the number of tool_use messages handled, and
\* files_modified holds no path twice.
C33_MetricsCountMessages ==
    /\ metrics.tasks_completed = HandledCount("task_complete")
    /\ metrics.tasks_failed = HandledCount("task_error")
    /\ Len(SelectSeq(broadcasts, LAMBDA b : b.call = "broadcast_error"))
            = HandledCount("task_error")
    /\ SumOf(tools_used) = HandledCount("tool_use")
    /\ \A i, j \in 1..Len(metrics.files_modified) :
            metrics.files_modified[i] = metrics.files_modified[j] => i = j

\* Three messages handled: a tool use, a failed task and a completed task
\* that names a file twice.
C33_Witness ==
    /\ HandledCount("tool_use") = 1
    /\ HandledCount("task_error") = 1
    /\ \E i \in 1..Len(consumed) :
          /\ consumed[i].came = "handled"
          /\ consumed[i].line.type = "task_complete"
          /\ FilesOf(consumed[i].line) = <<"a.py", "a.py">>
    /\ metrics.files_modified = <<"a.py">>

(***************************************************************************)
(* WorkerPoolManager.start_workers (mcp_server_stdio.py)                   *)
(***************************************************************************)
\* MCPWorkerType: the agent types there is a worker type for
WorkerTypes == {"codex", "cursor", "claude", "gpt4", "droid"}

\* A registry entry: whether it has 'enabled' and what it says, its
\* agent_type, and whether start() of its supervisor will succeed.  The worker
\* id of an entry is its place in the registry.
Entries ==
    [enabled : {"absent", "true", "false"}, agent_type : {"codex", "robot"},
     starts : BOOLEAN]

Registries == UNION { [1..n -> Entries] : n \in 0..MaxEntries }

\* A wrong start_workers: the 'enabled' flag is not looked at.
AlwaysEnabled(entry) == TRUE

\* worker_cfg.get('enabled', True)
IsEnabled(entry) == entry.enabled # "false"

\* start_workers() is called
StartWorkersBegins ==
    /\ pool_pc = "idle"
    /\ pool_pc' = "loop"
    /\ UNCHANGED <<registry, pool_idx, pool_spawned, pool_workers, outsidePool>>

\* `if not worker_cfg.get('enabled', True): continue`
StartWorkersSkips ==
    /\ pool_pc = "loop"
    /\ pool_idx < Len(registry)
    /\ ~IsEnabled(registry[pool_idx + 1])
    /\ pool_idx' = pool_idx + 1
    /\ UNCHANGED <<registry, pool_pc, pool_spawned, pool_workers, outsidePool>>

\* MCPWorkerType(worker_cfg['agent_type']) raises ValueError, outside the
\* `try`: start_workers raises
StartWorkersConfigRaises ==
    /\ pool_pc = "loop"
    /\ pool_idx < Len(registry)
    /\ IsEnabled(registry[pool_idx + 1])
    /\ registry[pool_idx + 1].agent_type \notin WorkerTypes
    /\ pool_pc' = "raised"
    /\ UNCHANGED <<registry, pool_idx, pool_spawned, pool_workers, outsidePool>>

\* server.start() returns: the server is put into self.workers
StartWorkersStarts ==
    /\ pool_pc = "loop"
    /\ pool_idx < Len(registry)
    /\ IsEnabled(registry[pool_idx + 1])
    /\ registry[pool_idx + 1].agent_type \in WorkerTypes
    /\ registry[pool_idx + 1].starts
    /\ pool_spawned' = Append(pool_spawned, pool_idx + 1)
    /\ pool_workers' = Put(pool_workers, pool_idx + 1, pool_idx + 1)
    /\ pool_idx' = pool_idx + 1
    /\ UNCHANGED <<registry, pool_pc, outsidePool>>

\* server.start() raises: the except clause prints and the loop goes on
StartWorkersStartFails ==
    /\ pool_pc = "loop"
    /\ pool_idx < Len(registry)
    /\ IsEnabled(registry[pool_idx + 1])
    /\ registry[pool_idx + 1].agent_type \in WorkerTypes
    /\ ~registry[pool_idx + 1].starts
    /\ pool_spawned' = Append(pool_spawned, pool_idx + 1)
    /\ pool_idx' = pool_idx + 1
    /\ UNCHANGED <<registry, pool_pc, pool_workers, outsidePool>>

\* The loop is over: start_workers returns
StartWorkersReturns ==
    /\ pool_pc = "loop"
    /\ pool_idx = Len(registry)
    /\ pool_pc' = "returned"
    /\ UNCHANGED <<registry, pool_idx, pool_spawned, pool_workers, outsidePool>>

NextPool ==
    \/ StartWorkersBegins
    \/ StartWorkersSkips
    \/ StartWorkersConfigRaises
    \/ StartWorkersStarts
    \/ StartWorkersStartFails
    \/ StartWorkersReturns

InitPool ==
    /\ EngineIdle /\ HubConstructed /\ SupConstructed /\ ExecIdle /\ LauncherIdle
    /\ PoolConstructed
    /\ registry \in Registries

SpecPool == InitPool /\ [][NextPool]_vars

\* C36: after start_workers has returned, self.workers holds exactly the
\* entries that are enabled and whose start() succeeded, each under its own
\* id; start() was called for every enabled entry, in registry order, also for
\* those after an entry whose start() failed; and at no moment was it called
\* for a disabled entry.
C36_PoolHoldsStartedWorkers ==
    /\ \A i \in Range(pool_spawned) : registry[i].enabled # "false"
    /\ pool_pc = "returned" =>
          /\ DOMAIN pool_workers =
                {i \in 1..Len(registry) :
                    registry[i].enabled # "false" /\ registry[i].starts}
          /\ \A i \in DOMAIN pool_workers : pool_workers[i] = i
          /\ pool_spawned =
                SelectSeq([i \in 1..Len(registry) |-> i],
                          LAMBDA i : registry[i].enabled # "false")

\* start_workers has returned from a registry with a disabled entry, then an
\* entry whose start() failed, then one that started.
C36_Witness ==
    /\ pool_pc = "returned"
    /\ Len(registry) = 3
    /\ registry[1].enabled = "false"
    /\ registry[2].enabled = "absent" /\ ~registry[2].starts
    /\ registry[3].enabled = "true" /\ registry[3].starts
    /\ DOMAIN pool_workers = {3}

(***************************************************************************)
(* OrchestrationLauncher (orchestration_launcher.py), one orchestration    *)
(***************************************************************************)
\* A wrong _stream_orchestration: planning is streamed before the analysis.
PlanningFirst == <<"planning", "analytic", "execution">>

\* The phases _stream_orchestration runs, in its order
LauncherPhases == <<"analytic", "planning", "execution">>

\* What run_analytic_phase(owner_request, uploaded_files=[]) yields
AnalyticUpdates ==
    <<"phase_start", "task_type_determined", "coordination_points",
      "scope_strategy", "phase_complete">>

\* What run_planning_phase(analysis) yields
PlanningUpdates ==
    <<"phase_start", "objectives_created", "waves_created", "scope_validated",
      "phase_complete">>

\* run_execution_phase(plan), having yielded k updates, may yield one more:
\* one update for each step of the execution, any number of them
ExecutionYields(k, more) == more => k < MaxExecUpdates

\* Whether the generator of phase p, having yielded k updates, yields one
\* more
YieldsMore(p, k, more) ==
    IF LauncherPhases[p] = "analytic" THEN more = (k < Len(AnalyticUpdates))
    ELSE IF LauncherPhases[p] = "planning" THEN more = (k < Len(PlanningUpdates))
    ELSE ExecutionYields(k, more)

\* update_orchestration_status(orch_id, status, phase)
OrchRow(status, phase) == [status |-> status, phase |-> phase]

\* `if websocket_callback: await websocket_callback(message)` has returned
Notified(message) ==
    notes' = IF callback = "none" THEN notes ELSE Append(notes, message)

\* The pending callback call of each position of start_orchestration
NoteOf(pc, phase) ==
    CASE pc = "n_started"  -> [type |-> "orchestration_started", phase |-> "initializing"]
      [] pc = "n_phase"    -> [type |-> "phase_update", phase |-> phase]
      [] pc = "n_update"   -> [type |-> "phase_update", phase |-> phase]
      [] pc = "n_complete" -> [type |-> "orchestration_complete", phase |-> None]
      [] pc = "n_error"    -> [type |-> "orchestration_error", phase |-> None]

\* A wrong `finally`: the orchestration stays in active_orchestrations.
KeepOrchestration(a) == a

\* `finally: self.active_orchestrations.pop(orch_id, None)`
PopOrchestration(a) == FALSE

\* start_orchestration(version_id, websocket_callback) up to its first await,
\* or to its return when the version is missing or has no PRD
StartOrchestration ==
    /\ launch.pc = "idle"
    /\ IF version = "ok"
       THEN /\ orch' = OrchRow("running", None)
            /\ launch' = [launch EXCEPT !.pc = "n_started"]
       ELSE /\ launch' = [launch EXCEPT !.pc = "returned",
                                        !.result = [success |-> FALSE]]
            /\ UNCHANGED orch
    /\ UNCHANGED <<version, callback, active, notes, entered, cancels,
                   outsideLauncher>>

\* The except clause of start_orchestration: the row is marked failed and the
\* callback is called with orchestration_error
MarkFailed ==
    /\ orch' = OrchRow("failed", "error")
    /\ launch' = [launch EXCEPT !.pc = "n_error", !.err = TRUE]

\* The stream is resumed in phase p after k updates: the next update is
\* yielded and stored as 'running', or the next phase begins, or the stream
\* ends and the row is marked completed; then the callback is called
ResumeStream(p, k) ==
    \E more \in BOOLEAN :
        /\ YieldsMore(p, k, more)
        /\ IF more
           THEN /\ orch' = OrchRow("running", LauncherPhases[p])
                /\ launch' = [launch EXCEPT !.pc = "n_update", !.k = k + 1]
                /\ UNCHANGED entered
           ELSE IF p < Len(LauncherPhases)
           THEN /\ launch' = [launch EXCEPT !.pc = "n_phase", !.phase = p + 1,
                                            !.k = 0]
                /\ entered' = Append(entered, LauncherPhases[p + 1])
                /\ UNCHANGED orch
           ELSE /\ orch' = OrchRow("completed", "complete")
                /\ launch' = [launch EXCEPT !.pc = "n_complete"]
                /\ UNCHANGED entered

\* The callback returns from orchestration_started: the engine is built and
\* registered, the row is set to running/analytic, the stream begins
StartedNoteReturns ==
    /\ launch.pc = "n_started"
    /\ Notified(NoteOf(launch.pc, None))
    /\ active' = TRUE
    /\ orch' = OrchRow("running", "analytic")
    /\ launch' = [launch EXCEPT !.pc = "n_phase", !.phase = 1, !.k = 0]
    /\ entered' = <<LauncherPhases[1]>>
    /\ UNCHANGED <<version, callback, cancels, outsideLauncher>>

\* The callback returns from orchestration_started and EnhancedOrchestrator()
\* raises (no team.json): nothing is registered
EngineConstructionFails ==
    /\ launch.pc = "n_started"
    /\ Notified(NoteOf(launch.pc, None))
    /\ MarkFailed
    /\ UNCHANGED <<version, callback, active, entered, cancels, outsideLauncher>>

\* The callback returns from a phase_update and the stream goes on
StreamNoteReturns ==
    /\ launch.pc \in {"n_phase", "n_update"}
    /\ Notified(NoteOf(launch.pc, LauncherPhases[launch.phase]))
    /\ ResumeStream(launch.phase, launch.k)
    /\ UNCHANGED <<version, callback, active, cancels, outsideLauncher>>

\* The callback returns from a phase_update and the phase raises
PhaseRaises ==
    /\ launch.pc \in {"n_phase", "n_update"}
    /\ Notified(NoteOf(launch.pc, LauncherPhases[launch.phase]))
    /\ MarkFailed
    /\ UNCHANGED <<version, callback, active, entered, cancels, outsideLauncher>>

\* The callback returns from orchestration_complete or orchestration_error:
\* start_orchestration returns its result and the `finally` runs
FinalNoteReturns ==
    /\ launch.pc \in {"n_complete", "n_error"}
    /\ Notified(NoteOf(launch.pc, None))
    /\ launch' = [launch EXCEPT !.pc = "returned",
                                !.result = [success |-> launch.pc = "n_complete"]]
    /\ active' = PopOrchestration(active)
    /\ UNCHANGED <<version, callback, orch, entered, cancels, outsideLauncher>>

\* The callback raises: before the `try` the error leaves start_orchestration
\* as it is; inside the `try` the except clause takes over; inside the except
\* clause the error leaves start_orchestration through the `finally`
CallbackRaises ==
    /\ callback = "flaky"
    /\ launch.pc \in {"n_started", "n_phase", "n_update", "n_complete", "n_error"}
    /\ CASE launch.pc = "n_started" ->
              /\ launch' = [launch EXCEPT !.pc = "raised", !.raised = TRUE]
              /\ UNCHANGED <<orch, active>>
         [] launch.pc = "n_error" ->
              /\ launch' = [launch EXCEPT !.pc = "raised", !.raised = TRUE]
              /\ active' = PopOrchestration(active)
              /\ UNCHANGED orch
         [] OTHER ->
              /\ orch' = OrchRow("failed", "error")
              /\ launch' = [launch EXCEPT !.pc = "n_error", !.raised = TRUE]
              /\ UNCHANGED active
    /\ UNCHANGED <<version, callback, notes, entered, cancels, outsideLauncher>>

\* cancel_orchestration(orch_id), by another task: while start_orchestration
\* is suspended in the callback, or when it is not running
CancelOrchestration ==
    /\ Len(cancels) < MaxCancels
    /\ callback # "none" \/ launch.pc \in {"idle", "returned", "raised"}
    /\ IF active
       THEN /\ active' = FALSE
            /\ orch' = OrchRow("cancelled", "cancelled")
            /\ cancels' = Append(cancels, TRUE)
       ELSE /\ cancels' = Append(cancels, FALSE)
            /\ UNCHANGED <<active, orch>>
    /\ UNCHANGED <<version, callback, launch, notes, entered, outsideLauncher>>

NextLauncher ==
    \/ StartOrchestration
    \/ StartedNoteReturns
    \/ EngineConstructionFails
    \/ StreamNoteReturns
    \/ PhaseRaises
    \/ FinalNoteReturns
    \/ CallbackRaises
    \/ CancelOrchestration

InitLauncher ==
    /\ EngineIdle /\ HubConstructed /\ SupConstructed /\ ExecIdle /\ PoolIdle
    /\ LauncherConstructed
    /\ version \in {"missing", "empty_prd", "ok"}
    /\ callback \in {"none", "ok", "flaky"}

SpecLauncher == InitLauncher /\ [][NextLauncher]_vars

(***************************************************************************)
(* Properties of the OrchestrationLauncher                                 *)
(***************************************************************************)
\* cancel_orchestration has returned True
CancelledOnce == TRUE \in Range(cancels)

\* C37: once cancel_orchestration has returned True for a running
\* orchestration, its persisted status stays 'cancelled'; the task of
\* start_orchestration never overwrites it.
C37_CancelledStays == CancelledOnce => orch.status = "cancelled"

\* start_orchestration has returned after creating an orchestration record
ReturnedWithRecord == launch.pc = "returned" /\ orch.status # None

\* C38: when start_orchestration returns after having created a record, on
\* the success path and on every error path, the orchestration is not in
\* active_orchestrations and its persisted status is not 'running'; for a
\* missing version or an empty PRD no record is created.
C38_ReturnLeavesNothingRunning ==
    /\ ReturnedWithRecord => (~active /\ orch.status # "running")
    /\ version # "ok" => orch.status = None

\* start_orchestration has returned on an error path with its record failed
C38_Witness ==
    /\ ReturnedWithRecord
    /\ launch.err
    /\ orch.status = "failed"
    /\ launch.result = [success |-> FALSE]

\* The phases of the delivered phase_update notifications
NotifiedPhases ==
    LET ups == SelectSeq(notes, LAMBDA n : n.type = "phase_update")
    IN  [i \in 1..Len(ups) |-> ups[i].phase]

\* The position of a phase in the order analysis, planning, execution
StreamRank(phase) ==
    CASE phase = "analytic" -> 1 [] phase = "planning" -> 2
      [] phase = "execution" -> 3

\* No phase error, no failing callback and no cancellation so far
Undisturbed == ~launch.err /\ ~launch.raised /\ ~CancelledOnce

====
